---- MODULE Spec2Model ----
(***************************************************************************)
(* Residual-demand traffic assignment of                                   *)
(* src/modules/performREC/transportation.py                                *)
(* (TransportationPerformance.system_performance and its nested functions  *)
(* substep_assignment, write_edge_vol, write_final_vol, assignment).       *)
(*                                                                         *)
(* Times are fixed-point numbers counted in hundredths of a second: the    *)
(* code rounds every congested travel time to two decimals (round(2)), so  *)
(* all time arithmetic of the loop is exact in this unit.  Edge keys are   *)
(* the pairs <<start_nid, end_nid>> that the code writes as the string     *)
(* 'start-end'.                                                            *)
(***************************************************************************)
EXTENDS Integers, Sequences, FiniteSets, TLC

\* ------------------------------------------------------------------ bounds
\* Largest number of rows of the OD table.
MaxTrips == 2

\* ------------------------------------------------------- program constants
\* One second in model time units (t_avg is rounded to 2 decimals).
Centi == 100
\* The "impassable" free-flow / travel time, 36000 s.
CLOSED_TIME == 36000 * Centi
\* One simulated hour, 3600 s.
HOUR_TIME == 3600 * Centi
\* travel_time recorded for a trip without a path.
NO_PATH_TIME == 360000 * Centi
\* Capacity given to an edge whose input capacity is below 1.
DEFAULT_CAPACITY == 950
\* alpha_f = 0.3 as a fraction.
ALPHA_NUM == 3
ALPHA_DEN == 10
\* Length pandana reports for an unreachable pair, 4294967.295 s.
UNREACHABLE_LENGTH == 429496730
\* Python's None (agent_time_limit) and NaN; a current_link of None.
None == -1
NoLink == <<>>
NaN == -2
\* A local variable that has not been assigned yet (trip_stop, hour).
Unbound == -3

\* ------------------------------------------------------------- arithmetic
Max(a, b) == IF a >= b THEN a ELSE b
Min(a, b) == IF a <= b THEN a ELSE b

RECURSIVE Pow(_, _)
Pow(b, e) == IF e = 0 THEN 1 ELSE b * Pow(b, e - 1)

RECURSIVE SeqSum(_)
SeqSum(s) == IF s = <<>> THEN 0 ELSE Head(s) + SeqSum(Tail(s))

Range(s) == {s[i] : i \in DOMAIN s}

\* <<floor(a*p/q), (a*p) mod q>> by binary long multiplication, so that no
\* intermediate product leaves the machine integers; the quotient saturates
\* at `cap + 1' (every value above cap is clamped by the caller anyway).
RECURSIVE MulDiv(_, _, _, _)
MulDiv(a, p, q, cap) ==
    IF a = 0 THEN <<0, 0>>
    ELSE LET h == MulDiv(a \div 2, p, q, cap)
             r == 2 * h[2] + (a % 2) * p
             n == 2 * h[1] + (r \div q)
         IN  IF h[1] > cap \/ n > cap THEN <<cap + 1, 0>> ELSE <<n, r % q>>

\* numpy's round(): to the nearest integer, ties to the even one.
RoundHalfEven(quot, rem, q) ==
    IF 2 * rem > q THEN quot + 1
    ELSE IF 2 * rem < q THEN quot
    ELSE IF quot % 2 = 0 THEN quot ELSE quot + 1

\* ------------------------------------------------------------------ inputs
\* Node table (node_id column of the nodes file).
Nodes == {1, 2, 3}

\* Edge file rows.  fft stands for length / maxspeed * 2.23694, the value the
\* loader computes for the row.  Rows 1 and 5 join the same pair of nodes,
\* row 4 carries a capacity below 1.
EDGE_ROWS ==
    << [uniqueid |-> 1, start_nid |-> 1, end_nid |-> 2, fft |-> 10 * Centi,   capacity |-> 3],
       [uniqueid |-> 2, start_nid |-> 2, end_nid |-> 3, fft |-> 1790 * Centi, capacity |-> 2],
       [uniqueid |-> 3, start_nid |-> 1, end_nid |-> 3, fft |-> 3000 * Centi, capacity |-> 1],
       [uniqueid |-> 4, start_nid |-> 3, end_nid |-> 2, fft |-> 20 * Centi,   capacity |-> 0],
       [uniqueid |-> 5, start_nid |-> 1, end_nid |-> 2, fft |-> 5 * Centi,    capacity |-> 1] >>

\* Rows an OD file is made of: agent_id, origin_nid, destin_nid, hour, quarter.
OD_ROWS ==
    { [agent_id |-> 1, origin_nid |-> 1, destin_nid |-> 3, hour |-> 6, quarter |-> 0],
      [agent_id |-> 1, origin_nid |-> 1, destin_nid |-> 3, hour |-> 6, quarter |-> 1],
      [agent_id |-> 1, origin_nid |-> 1, destin_nid |-> 3, hour |-> 9, quarter |-> 0],
      [agent_id |-> 2, origin_nid |-> 1, destin_nid |-> 3, hour |-> 7, quarter |-> 0],
      [agent_id |-> 2, origin_nid |-> 1, destin_nid |-> 2, hour |-> 6, quarter |-> 0],
      [agent_id |-> 2, origin_nid |-> 2, destin_nid |-> 3, hour |-> 7, quarter |-> 0],
      [agent_id |-> 3, origin_nid |-> 3, destin_nid |-> 1, hour |-> 6, quarter |-> 1] }

\* OD files of at most MaxTrips rows.
ODTables == UNION {[1..n -> OD_ROWS] : n \in 0..MaxTrips}

\* OD files of at most MaxTrips rows with a trip from a node to itself among
\* trips that start in the same quarter.
SAME_NODE_ROWS ==
    { [agent_id |-> 3, origin_nid |-> 2, destin_nid |-> 2, hour |-> 6, quarter |-> 0],
      [agent_id |-> 1, origin_nid |-> 1, destin_nid |-> 3, hour |-> 6, quarter |-> 0],
      [agent_id |-> 2, origin_nid |-> 1, destin_nid |-> 2, hour |-> 6, quarter |-> 0] }

SameNodeTables == UNION {[1..n -> SAME_NODE_ROWS] : n \in 0..MaxTrips}

\* OD files of MaxTrips + 1 rows in which an agent makes the same trip more
\* than once.
REPEATED_ROWS ==
    { [agent_id |-> 1, origin_nid |-> 1, destin_nid |-> 3, hour |-> 6, quarter |-> 1],
      [agent_id |-> 2, origin_nid |-> 1, destin_nid |-> 3, hour |-> 7, quarter |-> 0] }

RepeatedTables == [1..(MaxTrips + 1) -> REPEATED_ROWS]

\* OD files of MaxTrips + 1 rows for a run in which a link is closed in the
\* first hour, open in the second and closed again in the third.
REOPENING_ROWS ==
    { [agent_id |-> 1, origin_nid |-> 1, destin_nid |-> 3, hour |-> 6, quarter |-> 0],
      [agent_id |-> 2, origin_nid |-> 1, destin_nid |-> 3, hour |-> 7, quarter |-> 1],
      [agent_id |-> 3, origin_nid |-> 1, destin_nid |-> 3, hour |-> 7, quarter |-> 1] }

ReopeningTables == [1..(MaxTrips + 1) -> REOPENING_ROWS]

\* hour_list of the run.
HOUR_LIST == <<6, 7>>

\* The closure file and closure_hours: no closed link, or edge 2 closed in
\* any set of hours of the run.
Closures ==
    {[closed_links |-> <<>>, closure_hours |-> {}]}
    \cup [closed_links : {<<2>>}, closure_hours : SUBSET Range(HOUR_LIST)]

\* The other arguments of assignment(): the defaults of the code, a run
\* with small substeps and a sampled demand, and a run with a time limit.
Parameters ==
    { [substep_size |-> 30000, agent_time_limit |-> None, sample_interval |-> 1, beta_f |-> 4],
      [substep_size |-> 2, agent_time_limit |-> None, sample_interval |-> 2, beta_f |-> 2],
      [substep_size |-> 2, agent_time_limit |-> 2500 * Centi, sample_interval |-> 1, beta_f |-> 4] }

\* The defaults of assignment() for the arguments above.
DefaultParameters ==
    [substep_size |-> 30000, agent_time_limit |-> None, sample_interval |-> 1, beta_f |-> 4]

\* Further runs with the default arguments: the hour list of the driver and
\* one that skips an hour; a demand file without a quarter column, with and
\* without a closed link; a closure file with a row whose uniqueid is the id
\* of no edge; an empty hour list.
Variants ==
    { [hour_list |-> <<6, 7, 8>>, has_quarter |-> TRUE,
       closed_links |-> <<>>, closure_hours |-> {}],
      [hour_list |-> <<>>, has_quarter |-> TRUE,
       closed_links |-> <<2>>, closure_hours |-> {}],
      [hour_list |-> <<7, 9>>, has_quarter |-> TRUE,
       closed_links |-> <<>>, closure_hours |-> {}],
      [hour_list |-> HOUR_LIST, has_quarter |-> FALSE,
       closed_links |-> <<>>, closure_hours |-> {}],
      [hour_list |-> HOUR_LIST, has_quarter |-> FALSE,
       closed_links |-> <<2>>, closure_hours |-> {6, 7}],
      [hour_list |-> HOUR_LIST, has_quarter |-> TRUE,
       closed_links |-> <<9>>, closure_hours |-> {6}] }

\* The input files and arguments of one run.
Scenarios ==
    { [ od_table |-> od, has_quarter |-> TRUE,
        closed_links |-> c.closed_links, closure_hours |-> c.closure_hours,
        hour_list |-> HOUR_LIST, quarter_list |-> <<0, 1>>,
        substep_size |-> p.substep_size, agent_time_limit |-> p.agent_time_limit,
        sample_interval |-> p.sample_interval, beta_f |-> p.beta_f ] :
      od \in ODTables, c \in Closures, p \in Parameters }
    \cup
    { [ od_table |-> od, has_quarter |-> v.has_quarter,
        closed_links |-> v.closed_links, closure_hours |-> v.closure_hours,
        hour_list |-> v.hour_list, quarter_list |-> <<0, 1>>,
        substep_size |-> DefaultParameters.substep_size,
        agent_time_limit |-> DefaultParameters.agent_time_limit,
        sample_interval |-> DefaultParameters.sample_interval,
        beta_f |-> DefaultParameters.beta_f ] :
      od \in ODTables, v \in Variants }
    \cup
    { [ od_table |-> od, has_quarter |-> TRUE,
        closed_links |-> <<>>, closure_hours |-> {},
        hour_list |-> HOUR_LIST, quarter_list |-> <<0, 1>>,
        substep_size |-> DefaultParameters.substep_size,
        agent_time_limit |-> DefaultParameters.agent_time_limit,
        sample_interval |-> DefaultParameters.sample_interval,
        beta_f |-> DefaultParameters.beta_f ] :
      od \in SameNodeTables }
    \cup
    { [ od_table |-> od, has_quarter |-> TRUE,
        closed_links |-> <<2>>, closure_hours |-> {6},
        hour_list |-> HOUR_LIST, quarter_list |-> <<0, 1>>,
        substep_size |-> 2, agent_time_limit |-> None,
        sample_interval |-> 2, beta_f |-> 2 ] :
      od \in RepeatedTables }
    \cup
    { [ od_table |-> od, has_quarter |-> TRUE,
        closed_links |-> <<2>>, closure_hours |-> {6, 8},
        hour_list |-> <<6, 7, 8>>, quarter_list |-> <<0, 1>>,
        substep_size |-> 2, agent_time_limit |-> None,
        sample_interval |-> 1, beta_f |-> 4 ] :
      od \in ReopeningTables }

\* ------------------------------------------------------------------- state
VARIABLES
    pc,               \* position of the run
    cfg,              \* the input files and the arguments of assignment()
    edges_df,         \* edge table, indexed by edge_str
    has_flow,         \* whether edges_df has the columns flow (and vol_true)
    od_all,           \* OD rows with a path (each with its index label)
    od_no_path,       \* OD rows without a path
    trip_info,        \* dict: trip key -> outcome list
    trip_keys,        \* the keys of trip_info in insertion order
    od_residual_list, \* residual agents of the quarter
    hi,               \* position of `hour' in hour_list (0: not bound yet)
    qi,               \* position of `quarter' in quarter_list (0: not bound)
    ss_id,            \* current substep
    od_hour,          \* od_hour of the current hour
    od_quarter,       \* od_quarter of the current quarter, with ss_id
    quarter_demand, assigned_demand, substep_counts,
    edge_vol_files,   \* edge_vol_hr{hour}_qt{quarter} files written
    trip_info_files,  \* trip_info_..._hr{hour} files written
    final_trip_info,  \* rows of the final trip_info file
    final_vol,        \* rows of the final_edge_vol file
    hist              \* history of the run (observation only)

vars == <<pc, cfg, edges_df, has_flow, od_all, od_no_path, trip_info, trip_keys,
          od_residual_list, hi, qi, ss_id, od_hour, od_quarter, quarter_demand,
          assigned_demand, substep_counts, edge_vol_files, trip_info_files,
          final_trip_info, final_vol, hist>>

\* quarter_counts and quarter_list as assignment() settles them.
\* (quarter_list is always given here; with quarter_list None the code takes
\* quarter_counts = 4 and quarter_list = quarter_ids.)
QuarterCounts == Len(cfg.quarter_list)
QuarterIds == [i \in 1..QuarterCounts |-> i - 1]
QuarterList == cfg.quarter_list
Hour == cfg.hour_list[hi]
Quarter == QuarterList[qi]

\* ----------------------------------------------------------------- loading
EdgeStr(r) == <<r.start_nid, r.end_nid>>

\* Faulty variant of KeepFirstCandidates: the row kept is one of least fft.
KeepFirstCandidates_Ascending(rows, k) ==
    {i \in DOMAIN rows :
        /\ <<rows[i].start_nid, rows[i].end_nid>> = k
        /\ \A j \in DOMAIN rows :
              <<rows[j].start_nid, rows[j].end_nid>> = k => rows[j].fft >= rows[i].fft}

\* sort_values(by='fft', ascending=False).drop_duplicates(keep='first'): the
\* positions of the rows that may survive for one pair of nodes (the sort is
\* not stable, so among rows of equal fft any one can come first).
KeepFirstCandidates(rows, k) ==
    {i \in DOMAIN rows :
        /\ EdgeStr(rows[i]) = k
        /\ \A j \in DOMAIN rows : EdgeStr(rows[j]) = k => rows[j].fft <= rows[i].fft}

\* Faulty variant of CleanCapacity: the capacity is taken as read.
CleanCapacity_AsRead(c) == c

\* np.where(capacity < 1, 950, capacity)
CleanCapacity(c) == IF c < 1 THEN DEFAULT_CAPACITY ELSE c

\* Faulty variant of LoadedEdge: the normal capacity is recorded before the
\* capacity is cleaned.
LoadedEdge_NormalAsRead(r) ==
    [ uniqueid |-> r.uniqueid, start_nid |-> r.start_nid, end_nid |-> r.end_nid,
      fft |-> r.fft, capacity |-> CleanCapacity(r.capacity),
      normal_fft |-> r.fft, normal_capacity |-> r.capacity,
      t_avg |-> r.fft,
      vol_true |-> 0, vol_tot |-> 0, veh_current |-> 0, flow |-> <<0, 1>> ]

\* One row of edges_df as the loader leaves it, before the closures.
LoadedEdge(r) ==
    [ uniqueid |-> r.uniqueid, start_nid |-> r.start_nid, end_nid |-> r.end_nid,
      fft |-> r.fft, capacity |-> CleanCapacity(r.capacity),
      normal_fft |-> r.fft, normal_capacity |-> CleanCapacity(r.capacity),
      t_avg |-> r.fft,
      vol_true |-> 0, vol_tot |-> 0, veh_current |-> 0, flow |-> <<0, 1>> ]

\* The closure loop: capacity = 1 and fft = 36000 on every edge whose
\* uniqueid is a row of closed_links.
ApplyClosures(edges, closed) ==
    [k \in DOMAIN edges |->
        IF edges[k].uniqueid \in Range(closed)
        THEN [edges[k] EXCEPT !.capacity = 1, !.fft = CLOSED_TIME]
        ELSE edges[k]]

\* Faulty variant of RestoreNormal: nothing is restored.
RestoreNormal_Nothing(edges) == edges

\* edges_df['capacity'] = edges_df['normal_capacity'], likewise fft.
RestoreNormal(edges) ==
    [k \in DOMAIN edges |->
        [edges[k] EXCEPT !.capacity = edges[k].normal_capacity,
                         !.fft = edges[k].normal_fft]]

\* ----------------------------------------------------------------- routing
\* pandana: the network of the given edges over all nodes of nodes_df,
\* one-way, with one weight per edge.  A path is the sequence of its nodes.
SimplePaths(open, a, b) ==
    {p \in UNION {[1..n -> Nodes] : n \in 2..Cardinality(Nodes)} :
        /\ p[1] = a /\ p[Len(p)] = b
        /\ \A i, j \in DOMAIN p : i # j => p[i] # p[j]
        /\ \A i \in 1..(Len(p) - 1) : <<p[i], p[i + 1]>> \in open}

PathCost(p, weight) ==
    SeqSum([i \in 1..(Len(p) - 1) |-> weight[<<p[i], p[i + 1]>>]])

\* The rank that settles which of several shortest paths the router returns
\* (fewer nodes first, then the smaller node ids): the library is
\* deterministic, its choice among equal paths is fixed here.
RECURSIVE PathRank(_)
PathRank(p) == IF p = <<>> THEN 0 ELSE PathRank(SubSeq(p, 1, Len(p) - 1)) * 10 + p[Len(p)]

\* net.shortest_paths for one pair: the nodes of a least-cost path, or the
\* empty path when the destination cannot be reached.
ShortestPath(open, weight, a, b) ==
    LET ps == SimplePaths(open, a, b)
        best == {p \in ps : \A q \in ps : PathCost(p, weight) <= PathCost(q, weight)}
    IN  IF ps = {} THEN <<>>
        ELSE CHOOSE p \in best : \A q \in best : PathRank(p) <= PathRank(q)

\* net.shortest_path_lengths for one pair.
ShortestPathLength(open, weight, a, b) ==
    LET p == ShortestPath(open, weight, a, b)
    IN  IF p = <<>> THEN UNREACHABLE_LENGTH ELSE PathCost(p, weight)

\* ------------------------------------------------------ capacity restraint
\* flow = vol_true * quarter_demand / assigned_demand * quarter_counts, kept
\* as the fraction <<numerator, denominator>>.
Flow(vol_true, qd, ad, qc) == <<vol_true * qd * qc, ad>>

\* Faulty variants of TAvg: the ceiling left out; the exponent fixed to 3.
TAvg_NoCeiling(fft, flow, capacity, beta) ==
    IF flow[1] = 0 THEN fft
    ELSE LET p == ALPHA_NUM * Pow(flow[1], beta)
             q == ALPHA_DEN * Pow(flow[2] * capacity, beta)
             d == MulDiv(fft, q + p, q, 1000000000)
         IN  RoundHalfEven(d[1], d[2], q)

TAvg_FixedBeta(fft, flow, capacity, beta) ==
    IF flow[1] = 0 THEN Min(fft, CLOSED_TIME)
    ELSE LET p == ALPHA_NUM * Pow(flow[1], 3)
             q == ALPHA_DEN * Pow(flow[2] * capacity, 3)
             d == MulDiv(fft, q + p, q, CLOSED_TIME)
         IN  IF d[1] > CLOSED_TIME \/ (d[1] = CLOSED_TIME /\ d[2] > 0)
             THEN CLOSED_TIME
             ELSE RoundHalfEven(d[1], d[2], q)

\* t_avg = fft * (1 + alpha_f * (flow / capacity) ** beta_f), then clamped to
\* 36000 and rounded to two decimals.  With flow = 0 the factor is exactly 1.
TAvg(fft, flow, capacity, beta) ==
    IF flow[1] = 0 THEN Min(fft, CLOSED_TIME)
    ELSE LET p == ALPHA_NUM * Pow(flow[1], beta)
             q == ALPHA_DEN * Pow(flow[2] * capacity, beta)
             d == MulDiv(fft, q + p, q, CLOSED_TIME)
         IN  IF d[1] > CLOSED_TIME \/ (d[1] = CLOSED_TIME /\ d[2] > 0)
             THEN CLOSED_TIME
             ELSE RoundHalfEven(d[1], d[2], q)

\* Faulty variant of RestraintUpdate: the volume dict is not written back.
RestraintUpdate_KeepsVol(edges, vol, veh, qd, ad, qc, beta) ==
    [k \in DOMAIN edges |->
        LET f == Flow(vol[k], qd, ad, qc)
        IN  [edges[k] EXCEPT !.veh_current = veh[k], !.flow = f,
                             !.t_avg = TAvg(edges[k].fft, f, edges[k].capacity, beta)]]

\* Lines 480-496 of substep_assignment: the new edge table from the volume
\* and vehicle dicts of the substep.
RestraintUpdate(edges, vol, veh, qd, ad, qc, beta) ==
    [k \in DOMAIN edges |->
        LET f == Flow(vol[k], qd, ad, qc)
        IN  [edges[k] EXCEPT !.vol_true = vol[k], !.veh_current = veh[k],
                             !.flow = f,
                             !.t_avg = TAvg(edges[k].fft, f, edges[k].capacity, beta)]]

\* ------------------------------------------------------ substep_assignment
TripKey(a) == <<a.agent_id, a.origin_nid, a.destin_nid>>

\* Faulty variant of WalkPath: trip_stop is the node an edge was entered
\* from, also when the edge is traversed.
RECURSIVE WalkPath_StopAtTail(_, _, _, _, _, _)
WalkPath_StopAtTail(path, i, a, tt, si, w) ==
    IF i >= Len(path) THEN w
    ELSE LET edge_str == <<path[i], path[i + 1]>>
             edge_travel_time == tt[edge_str]
         IN  IF w.remaining_time > edge_travel_time /\ edge_travel_time < CLOSED_TIME
             THEN WalkPath_StopAtTail(path, i + 1, a, tt, si,
                     [w EXCEPT !.remaining_time = @ - edge_travel_time,
                               !.used_time = @ + edge_travel_time,
                               !.vol[edge_str] = @ + 1 * si,
                               !.trip_stop = path[i],
                               !.veh[edge_str] =
                                   IF edge_str = a.current_link THEN @ - 1 * si ELSE @,
                               !.traversed = @ + 1])
             ELSE [w EXCEPT !.veh[edge_str] =
                                   IF edge_str # a.current_link THEN @ + 1 * si ELSE @,
                            !.trip_stop = path[i],
                            !.residual =
                                << [ row |-> a.row, agent_id |-> a.agent_id,
                                     origin_nid |-> a.origin_nid,
                                     destin_nid |-> a.destin_nid,
                                     current_nid |-> path[i],
                                     current_link |-> edge_str,
                                     current_link_time |-> w.remaining_time ] >>]

\* Faulty variant of WalkPath: an edge whose travel time equals the
\* remaining time is traversed.
RECURSIVE WalkPath_NonStrict(_, _, _, _, _, _)
WalkPath_NonStrict(path, i, a, tt, si, w) ==
    IF i >= Len(path) THEN w
    ELSE LET edge_str == <<path[i], path[i + 1]>>
             edge_travel_time == tt[edge_str]
         IN  IF w.remaining_time >= edge_travel_time /\ edge_travel_time < CLOSED_TIME
             THEN WalkPath_NonStrict(path, i + 1, a, tt, si,
                     [w EXCEPT !.remaining_time = @ - edge_travel_time,
                               !.used_time = @ + edge_travel_time,
                               !.vol[edge_str] = @ + 1 * si,
                               !.trip_stop = path[i + 1],
                               !.veh[edge_str] =
                                   IF edge_str = a.current_link THEN @ - 1 * si ELSE @,
                               !.traversed = @ + 1])
             ELSE [w EXCEPT !.veh[edge_str] =
                                   IF edge_str # a.current_link THEN @ + 1 * si ELSE @,
                            !.trip_stop = path[i],
                            !.residual =
                                << [ row |-> a.row, agent_id |-> a.agent_id,
                                     origin_nid |-> a.origin_nid,
                                     destin_nid |-> a.destin_nid,
                                     current_nid |-> path[i],
                                     current_link |-> edge_str,
                                     current_link_time |-> w.remaining_time ] >>]

\* The walk of one agent along its path, lines 416-448, from the edge that
\* starts at position i.  w carries remaining_time, used_time, the dicts
\* edge_quarter_vol and edge_current_vehicles, trip_stop, the residual entry
\* appended (if any) and the number of edges traversed.
RECURSIVE WalkPath(_, _, _, _, _, _)
WalkPath(path, i, a, tt, si, w) ==
    IF i >= Len(path) THEN w
    ELSE LET edge_str == <<path[i], path[i + 1]>>
             edge_travel_time == tt[edge_str]
         IN  IF w.remaining_time > edge_travel_time /\ edge_travel_time < CLOSED_TIME
             THEN WalkPath(path, i + 1, a, tt, si,
                     [w EXCEPT !.remaining_time = @ - edge_travel_time,
                               !.used_time = @ + edge_travel_time,
                               !.vol[edge_str] = @ + 1 * si,
                               !.trip_stop = path[i + 1],
                               !.veh[edge_str] =
                                   IF edge_str = a.current_link THEN @ - 1 * si ELSE @,
                               !.traversed = @ + 1])
             ELSE [w EXCEPT !.veh[edge_str] =
                                   IF edge_str # a.current_link THEN @ + 1 * si ELSE @,
                            !.trip_stop = path[i],
                            !.residual =
                                << [ row |-> a.row, agent_id |-> a.agent_id,
                                     origin_nid |-> a.origin_nid,
                                     destin_nid |-> a.destin_nid,
                                     current_nid |-> path[i],
                                     current_link |-> edge_str,
                                     current_link_time |-> w.remaining_time ] >>]

\* Faulty variant of RemoveAgentList: the time limit is never applied.
RemoveAgentList_None(od_ss, lengths, limit) == {}

\* remove_agent_list, lines 383-394: the agent ids whose planned trip length
\* exceeds agent_time_limit.
RemoveAgentList(od_ss, lengths, limit) ==
    IF limit = None THEN {}
    ELSE {od_ss[i].agent_id : i \in {j \in DOMAIN od_ss : lengths[j] > limit + 0}}

\* Faulty variant of ElapsedCredit: the time used is credited.
ElapsedCredit_UsedOnly(quarter_counts, used_time) == used_time

\* Lines 449-451: the elapsed time credited to a walked agent.
ElapsedCredit(quarter_counts, used_time) == HOUR_TIME \div quarter_counts

\* Faulty variant of Budget: a whole hour is granted.
Budget_FullHour(quarter_counts, current_link_time) == HOUR_TIME + current_link_time

\* Lines 412-414: remaining_time = 3600 / quarter_counts + the time carried.
Budget(quarter_counts, current_link_time) ==
    (HOUR_TIME \div quarter_counts) + current_link_time

\* The loop over the paths of the substep, lines 403-457, from agent k on.
\* st carries the two dicts, trip_stop (a local of the function: it keeps
\* its value from one agent to the next), the residual list, trip_info,
\* whether the function has raised, and the log of the walks.
RECURSIVE AgentLoop(_, _, _)
AgentLoop(c, k, st) ==
    IF k > Len(c.od_ss) \/ st.raised THEN st
    ELSE
      LET a == c.od_ss[k]
          key == TripKey(a)
      IN
      IF a.agent_id \in c.remove_agent_list
      THEN AgentLoop(c, k + 1,
              [st EXCEPT !.log = Append(@, [row |-> a.row, key |-> key, walked |-> FALSE,
                                            path |-> c.paths[k], traversed |-> 0,
                                            used_time |-> 0, stop |-> Unbound,
                                            budget |-> 0])])
      ELSE
        LET budget == Budget(c.quarter_counts, a.current_link_time)
            w == WalkPath(c.paths[k], 1, a, c.tt, c.sample_interval,
                    [remaining_time |-> budget, used_time |-> 0, vol |-> st.vol,
                     veh |-> st.veh, trip_stop |-> st.trip_stop, residual |-> <<>>,
                     traversed |-> 0])
        IN
        IF w.trip_stop = Unbound
        THEN [st EXCEPT !.raised = TRUE]   \* UnboundLocalError at line 453
        ELSE AgentLoop(c, k + 1,
              [ vol |-> w.vol, veh |-> w.veh, trip_stop |-> w.trip_stop,
                residuals |-> st.residuals \o w.residual,
                trip_info |->
                    [st.trip_info EXCEPT
                        ![key] = [ travel_time |-> @.travel_time
                                                  + ElapsedCredit(c.quarter_counts, w.used_time),
                                   travel_time_used |-> @.travel_time_used + w.used_time,
                                   stop_nid |-> w.trip_stop,
                                   stop_hour |-> c.hour,
                                   stop_quarter |-> c.quarter,
                                   stop_ssid |-> c.ss_id ]],
                raised |-> FALSE,
                log |-> Append(st.log, [row |-> a.row, key |-> key, walked |-> TRUE,
                                        path |-> c.paths[k], traversed |-> w.traversed,
                                        used_time |-> w.used_time, stop |-> w.trip_stop,
                                        budget |-> budget]) ])

\* Faulty variant of OpenEdges: closed edges stay in the routing network.
OpenEdges_All(edges) == DOMAIN edges

\* Faulty variant of Weight: the network is weighted by free-flow time.
Weight_FreeFlow(edges) == [k \in DOMAIN edges |-> edges[k].fft]

\* Open edges and weights of the substep network, lines 360-369 and 759.
OpenEdges(edges) == {k \in DOMAIN edges : edges[k].fft < CLOSED_TIME}
Weight(edges) == [k \in DOMAIN edges |-> edges[k].t_avg]

\* substep_assignment up to the restraint update: routes and walks od_ss on
\* weighted_edges_df (a copy of edges_df weighted by t_avg).
SubstepWalks(edges, od_ss, tinfo, limit, si, qc, hour, quarter, ss) ==
    LET open == OpenEdges(edges)
        weight == Weight(edges)
        paths == [i \in DOMAIN od_ss |->
                     ShortestPath(open, weight, od_ss[i].current_nid, od_ss[i].destin_nid)]
        lengths == [i \in DOMAIN od_ss |->
                     ShortestPathLength(open, weight, od_ss[i].current_nid,
                                        od_ss[i].destin_nid)]
    IN  AgentLoop(
            [ od_ss |-> od_ss, paths |-> paths,
              remove_agent_list |-> RemoveAgentList(od_ss, lengths, limit),
              tt |-> [k \in DOMAIN edges |-> edges[k].t_avg],
              sample_interval |-> si, quarter_counts |-> qc,
              hour |-> hour, quarter |-> quarter, ss_id |-> ss ],
            1,
            [ vol |-> [k \in DOMAIN edges |-> edges[k].vol_true],
              veh |-> [k \in DOMAIN edges |-> edges[k].veh_current],
              trip_stop |-> Unbound, residuals |-> <<>>, trip_info |-> tinfo,
              raised |-> FALSE, log |-> <<>> ])

\* ------------------------------------------------------------------- Init
EmptyHist ==
    [events |-> 0, removed |-> {}, last |-> <<>>, arrived |-> {}, lost |-> {},
     walks |-> <<>>, in_quarter |-> {}]

Init ==
    /\ cfg \in Scenarios
    /\ pc = "load"
    /\ edges_df = <<>>
    /\ has_flow = FALSE
    /\ od_all = <<>>
    /\ od_no_path = <<>>
    /\ trip_info = <<>>
    /\ trip_keys = <<>>
    /\ od_residual_list = <<>>
    /\ hi = 0
    /\ qi = 0
    /\ ss_id = 0
    /\ od_hour = <<>>
    /\ od_quarter = <<>>
    /\ quarter_demand = 0
    /\ assigned_demand = 0
    /\ substep_counts = 0
    /\ edge_vol_files = <<>>
    /\ trip_info_files = <<>>
    /\ final_trip_info = <<>>
    /\ final_vol = {}
    /\ hist = EmptyHist

\* ------------------------------------------------------ system_performance
\* Lines 907-985: read the edge file, drop duplicate pairs, clean the
\* capacities, record the normal values, apply the closures, read the nodes
\* and the demand.
LoadNetwork ==
    /\ pc = "load"
    /\ LET pairs == {EdgeStr(EDGE_ROWS[i]) : i \in DOMAIN EDGE_ROWS}
       IN  \E keep \in [pairs -> DOMAIN EDGE_ROWS] :
              /\ \A k \in pairs : keep[k] \in KeepFirstCandidates(EDGE_ROWS, k)
              /\ edges_df' = ApplyClosures([k \in pairs |-> LoadedEdge(EDGE_ROWS[keep[k]])],
                                           cfg.closed_links)
    /\ pc' = "assignment"
    /\ UNCHANGED <<cfg, has_flow, od_all, od_no_path, trip_info, trip_keys,
                   od_residual_list, hi, qi, ss_id, od_hour, od_quarter,
                   quarter_demand, assigned_demand, substep_counts, edge_vol_files,
                   trip_info_files, final_trip_info, final_vol, hist>>

\* ------------------------------------------------------------- assignment
\* The OD file as a frame: every row with its index label.
ODFrame(table) ==
    [i \in DOMAIN table |->
        [ row |-> i, agent_id |-> table[i].agent_id, origin_nid |-> table[i].origin_nid,
          destin_nid |-> table[i].destin_nid, hour |-> table[i].hour,
          quarter |-> table[i].quarter ]]

\* Lines 588-603: the rows without a path in the network of the edges that
\* are not rows of closed_links, weighted by fft.
\* Faulty variant of PrecheckOpen: the closed links are not removed.
PrecheckOpen_KeepsClosed(edges, closed) == DOMAIN edges

PrecheckOpen(edges, closed) == {k \in DOMAIN edges : edges[k].uniqueid \notin Range(closed)}

HasPath(edges, closed, r) ==
    ShortestPath(PrecheckOpen(edges, closed), [k \in DOMAIN edges |-> edges[k].fft],
                 r.origin_nid, r.destin_nid) # <<>>

\* What the router may return for a pair whose origin is its destination:
\* a path of that one node (TRUE) or no path (FALSE).  The code leaves it to
\* the library; a run has one of the two throughout.
SameNodePath(table) ==
    IF \E i \in DOMAIN table : table[i].origin_nid = table[i].destin_nid
    THEN BOOLEAN ELSE {TRUE}

\* The keys of a dict built from the rows in order: first occurrences.
RECURSIVE KeyOrder(_)
KeyOrder(rows) ==
    IF rows = <<>> THEN <<>>
    ELSE LET init == KeyOrder(SubSeq(rows, 1, Len(rows) - 1))
             k == TripKey(rows[Len(rows)])
         IN  IF k \in Range(init) THEN init ELSE Append(init, k)

\* Lines 608-620: the value of a key is built from the last row that has it.
InitialTripInfo(rows) ==
    [k \in {TripKey(rows[i]) : i \in DOMAIN rows} |->
        LET last == CHOOSE i \in DOMAIN rows :
                        /\ TripKey(rows[i]) = k
                        /\ \A j \in DOMAIN rows : TripKey(rows[j]) = k => j <= i
        IN  [ travel_time |-> 0, travel_time_used |-> 0,
              stop_nid |-> rows[last].origin_nid, stop_hour |-> 0,
              stop_quarter |-> rows[last].hour, stop_ssid |-> rows[last].quarter ]]

\* Lines 585-635.  Without a quarter column `od.quarter' raises as soon as
\* od_all has a row.
AssignmentSetup ==
    /\ pc = "assignment"
    /\ \E same_node_path \in SameNodePath(cfg.od_table) :
       LET frame == ODFrame(cfg.od_table)
           found(r) == IF r.origin_nid = r.destin_nid THEN same_node_path
                       ELSE HasPath(edges_df, cfg.closed_links, r)
           routable == SelectSeq(frame, found)
           nopath == SelectSeq(frame, LAMBDA r : ~found(r))
       IN  IF ~cfg.has_quarter /\ routable # <<>>
           THEN /\ pc' = "raised"
                /\ od_no_path' = nopath
                /\ od_all' = routable
                /\ UNCHANGED <<trip_info, trip_keys, edges_df>>
           ELSE /\ pc' = "hour"
                /\ od_no_path' = nopath
                /\ od_all' = routable
                /\ trip_info' = InitialTripInfo(routable)
                /\ trip_keys' = KeyOrder(routable)
                /\ edges_df' = [k \in DOMAIN edges_df |->
                                   [edges_df[k] EXCEPT !.vol_tot = 0, !.veh_current = 0]]
    /\ od_residual_list' = <<>>
    /\ UNCHANGED <<cfg, has_flow, hi, qi, ss_id, od_hour, od_quarter, quarter_demand,
                   assigned_demand, substep_counts, edge_vol_files, trip_info_files,
                   final_trip_info, final_vol, hist>>

\* Lines 639-670: the head of an hour.
HourStart ==
    /\ pc = "hour"
    /\ hi < Len(cfg.hour_list)
    /\ hi' = hi + 1
    /\ LET hour == cfg.hour_list[hi + 1]
           rows == SelectSeq(od_all, LAMBDA r : r.hour = hour)
       IN  /\ edges_df' = IF hour \in cfg.closure_hours
                          THEN ApplyClosures(edges_df, cfg.closed_links)
                          ELSE RestoreNormal(edges_df)
           /\ \E od_quarter_msk \in (IF cfg.has_quarter THEN {[i \in DOMAIN rows |-> 0]}
                                      ELSE [DOMAIN rows -> Range(QuarterIds)]) :
                 od_hour' = [i \in DOMAIN rows |->
                               [ row |-> rows[i].row, agent_id |-> rows[i].agent_id,
                                 origin_nid |-> rows[i].origin_nid,
                                 destin_nid |-> rows[i].destin_nid,
                                 current_nid |-> rows[i].origin_nid,
                                 current_link |-> NoLink, current_link_time |-> 0,
                                 quarter |-> IF cfg.has_quarter THEN rows[i].quarter
                                             ELSE od_quarter_msk[i] ]]
    /\ qi' = 0
    /\ pc' = "quarter"
    /\ UNCHANGED <<cfg, has_flow, od_all, od_no_path, trip_info, trip_keys,
                   od_residual_list, ss_id, od_quarter, quarter_demand,
                   assigned_demand, substep_counts, edge_vol_files, trip_info_files,
                   final_trip_info, final_vol, hist>>

\* Faulty variant of MergeDemand: the residual agents are left out.
MergeDemand_NewOnly(new, residual) == new

\* Lines 699-701: pd.concat([od_quarter, od_residual]).
MergeDemand(new, residual) == new \o residual

\* Faulty variant of DropArrived: nothing is dropped.
DropArrived_Nothing(merged) == merged

\* Lines 705-707: od_quarter[od_quarter['current_nid'] != od_quarter['destin_nid']].
DropArrived(merged) == SelectSeq(merged, LAMBDA r : r.current_nid # r.destin_nid)

\* Faulty variant of SubstepCounts: a single substep whatever the demand.
SubstepCounts_One(demand, size) == 1

\* Line 717: substep_counts = max(1, (quarter_demand // substep_size) + 1).
SubstepCounts(demand, size) == Max(1, (demand \div size) + 1)

\* Lines 671-733: the head of a quarter.
QuarterStart ==
    /\ pc = "quarter"
    /\ qi < Len(QuarterList)
    /\ qi' = qi + 1
    /\ LET quarter == QuarterList[qi + 1]
           new == SelectSeq(od_hour, LAMBDA r : r.quarter = quarter)
           strip(r) == [ row |-> r.row, agent_id |-> r.agent_id,
                         origin_nid |-> r.origin_nid, destin_nid |-> r.destin_nid,
                         current_nid |-> r.current_nid, current_link |-> r.current_link,
                         current_link_time |-> r.current_link_time ]
           merged == MergeDemand([i \in DOMAIN new |-> strip(new[i])], od_residual_list)
           kept == DropArrived(merged)
           demand == Len(kept)
           counts == SubstepCounts(demand, cfg.substep_size)
       IN  /\ quarter_demand' = demand
           /\ substep_counts' = counts
           /\ \E od_substep_msk \in [1..demand -> 0..(counts - 1)] :
                 od_quarter' = [i \in 1..demand |->
                                  [ row |-> kept[i].row, agent_id |-> kept[i].agent_id,
                                    origin_nid |-> kept[i].origin_nid,
                                    destin_nid |-> kept[i].destin_nid,
                                    current_nid |-> kept[i].current_nid,
                                    current_link |-> kept[i].current_link,
                                    current_link_time |-> kept[i].current_link_time,
                                    ss_id |-> od_substep_msk[i] ]]
    /\ od_residual_list' = <<>>
    /\ assigned_demand' = 0
    /\ edges_df' = [k \in DOMAIN edges_df |-> [edges_df[k] EXCEPT !.vol_true = 0]]
    /\ ss_id' = 0
    /\ pc' = "substep"
    /\ hist' = [hist EXCEPT !.events = 0, !.last = <<>>, !.in_quarter = {}]
    /\ UNCHANGED <<cfg, has_flow, od_all, od_no_path, trip_info, trip_keys, hi, od_hour,
                   edge_vol_files, trip_info_files, final_trip_info, final_vol>>

OdSs == SelectSeq(od_quarter, LAMBDA r : r.ss_id = ss_id)

\* Faulty variant of SkipSubstep: no substep is skipped.
SkipSubstep_Never(assigned) == FALSE

\* Lines 745-746: `if assigned_demand == 0: continue'.
SkipSubstep(assigned) == assigned = 0

\* Lines 743-746: a substep reached with no demand assigned so far.
SubstepSkip ==
    /\ pc = "substep"
    /\ ss_id < substep_counts
    /\ SkipSubstep(assigned_demand + Len(OdSs))
    /\ assigned_demand' = assigned_demand + Len(OdSs)
    /\ ss_id' = ss_id + 1
    /\ hist' = [hist EXCEPT !.last = <<>>]
    /\ UNCHANGED <<pc, cfg, edges_df, has_flow, od_all, od_no_path, trip_info, trip_keys,
                   od_residual_list, hi, qi, od_hour, od_quarter, quarter_demand,
                   substep_counts, edge_vol_files, trip_info_files, final_trip_info,
                   final_vol>>

\* The OD rows (index labels) of the agents the log shows as walked.
WalkedRows(log) == {log[i].row : i \in {j \in DOMAIN log : log[j].walked}}

\* Lines 743-788: one substep, substep_assignment included.
SubstepRun ==
    /\ pc = "substep"
    /\ ss_id < substep_counts
    /\ ~SkipSubstep(assigned_demand + Len(OdSs))
    /\ assigned_demand' = assigned_demand + Len(OdSs)
    /\ LET st == SubstepWalks(edges_df, OdSs, trip_info, cfg.agent_time_limit,
                              cfg.sample_interval, QuarterCounts, Hour, Quarter, ss_id)
       IN  IF st.raised
           THEN /\ pc' = "raised"
                /\ UNCHANGED <<edges_df, has_flow, trip_info, od_residual_list, ss_id, hist>>
           ELSE /\ pc' = pc
                /\ edges_df' = RestraintUpdate(edges_df, st.vol, st.veh, quarter_demand,
                                               assigned_demand + Len(OdSs), QuarterCounts,
                                               cfg.beta_f)
                /\ has_flow' = TRUE
                /\ trip_info' = st.trip_info
                /\ od_residual_list' = od_residual_list \o st.residuals
                /\ ss_id' = ss_id + 1
                /\ hist' = [ events |-> hist.events
                                        + SeqSum([i \in DOMAIN st.log |-> st.log[i].traversed]),
                             removed |-> hist.removed
                                        \cup {st.log[i].row : i \in {j \in DOMAIN st.log :
                                                                     ~st.log[j].walked}},
                             last |-> st.log,
                             arrived |-> hist.arrived
                                        \cup {st.log[i].row : i \in {j \in DOMAIN st.log :
                                                 /\ st.log[j].walked
                                                 /\ st.log[j].path # <<>>
                                                 /\ st.log[j].traversed
                                                       = Len(st.log[j].path) - 1}},
                             lost |-> hist.lost
                                        \cup {st.log[i].row : i \in {j \in DOMAIN st.log :
                                                 st.log[j].path = <<>>}},
                             walks |-> LET now == WalkedRows(st.log)
                                       IN  [r \in DOMAIN hist.walks \cup now |->
                                               (IF r \in DOMAIN hist.walks
                                                THEN hist.walks[r] ELSE 0)
                                               + (IF r \in now THEN 1 ELSE 0)],
                             in_quarter |-> hist.in_quarter \cup WalkedRows(st.log) ]
    /\ UNCHANGED <<cfg, od_all, od_no_path, trip_keys, hi, qi, od_hour, od_quarter,
                   quarter_demand, substep_counts, edge_vol_files, trip_info_files,
                   final_trip_info, final_vol>>

\* Faulty variant of WriteEdgeVol: the file is written whether or not the
\* edge table has a flow column.
WriteEdgeVol_Always(files, edges, flow_column, hour, quarter) ==
    Append(files,
        [ hour |-> hour, quarter |-> quarter,
          rows |-> LET ks == IF Cardinality(DOMAIN edges) < 10 THEN DOMAIN edges
                             ELSE {k \in DOMAIN edges : edges[k].vol_true > 0}
                   IN  [k \in ks |-> edges[k]] ])

\* write_edge_vol, lines 500-547: nothing is written while edges_df has no
\* flow column; a table of fewer than 10 edges is written whole, a larger one
\* restricted to the edges with volume.
WriteEdgeVol(files, edges, flow_column, hour, quarter) ==
    IF ~flow_column THEN files
    ELSE Append(files,
            [ hour |-> hour, quarter |-> quarter,
              rows |-> LET ks == IF Cardinality(DOMAIN edges) < 10 THEN DOMAIN edges
                                 ELSE {k \in DOMAIN edges : edges[k].vol_true > 0}
                       IN  [k \in ks |-> edges[k]] ])

\* Faulty variant of FoldVolumes: vol_tot is overwritten.
FoldVolumes_Overwrite(edges) ==
    [k \in DOMAIN edges |-> [edges[k] EXCEPT !.vol_tot = edges[k].vol_true]]

\* Line 802: edges_df['vol_tot'] += edges_df['vol_true'].
FoldVolumes(edges) ==
    [k \in DOMAIN edges |-> [edges[k] EXCEPT !.vol_tot = @ + edges[k].vol_true]]

\* Lines 801-810: the end of a quarter.
QuarterEnd ==
    /\ pc = "substep"
    /\ ss_id = substep_counts
    /\ LET folded == FoldVolumes(edges_df)
       IN  /\ edges_df' = folded
           /\ edge_vol_files' = WriteEdgeVol(edge_vol_files, folded, has_flow, Hour, Quarter)
    /\ pc' = "quarter"
    /\ UNCHANGED <<cfg, has_flow, od_all, od_no_path, trip_info, trip_keys,
                   od_residual_list, hi, qi, ss_id, od_hour, od_quarter, quarter_demand,
                   assigned_demand, substep_counts, trip_info_files, final_trip_info,
                   final_vol, hist>>

\* Faulty variant of TripInfoRows: only the trips that were walked.
TripInfoRows_Walked(info, keys) ==
    LET walked == SelectSeq(keys, LAMBDA k : info[k].travel_time > 0)
    IN  [i \in DOMAIN walked |->
            [ agent_id |-> walked[i][1], origin_nid |-> walked[i][2],
              destin_nid |-> walked[i][3],
              travel_time |-> info[walked[i]].travel_time,
              travel_time_used |-> info[walked[i]].travel_time_used,
              stop_nid |-> info[walked[i]].stop_nid,
              stop_hour |-> info[walked[i]].stop_hour,
              stop_quarter |-> info[walked[i]].stop_quarter,
              stop_ssid |-> info[walked[i]].stop_ssid ]]

\* The rows of trip_info_df, lines 813-839 and 849-875.
TripInfoRows(info, keys) ==
    [i \in DOMAIN keys |->
        [ agent_id |-> keys[i][1], origin_nid |-> keys[i][2], destin_nid |-> keys[i][3],
          travel_time |-> info[keys[i]].travel_time,
          travel_time_used |-> info[keys[i]].travel_time_used,
          stop_nid |-> info[keys[i]].stop_nid,
          stop_hour |-> info[keys[i]].stop_hour,
          stop_quarter |-> info[keys[i]].stop_quarter,
          stop_ssid |-> info[keys[i]].stop_ssid ]]

\* Faulty variant of CheckpointDue: a file after every hour.
CheckpointDue_EveryHour(hour) == TRUE

\* Line 812: `if hour % 3 == 0'.
CheckpointDue(hour) == hour % 3 = 0

\* Lines 812-845: the end of an hour, with the periodic trip_info file.
HourEnd ==
    /\ pc = "quarter"
    /\ qi = Len(QuarterList)
    /\ trip_info_files' = IF CheckpointDue(Hour)
                          THEN Append(trip_info_files,
                                  [hour |-> Hour, rows |-> TripInfoRows(trip_info, trip_keys)])
                          ELSE trip_info_files
    /\ pc' = "hour"
    /\ UNCHANGED <<cfg, edges_df, has_flow, od_all, od_no_path, trip_info, trip_keys,
                   od_residual_list, hi, qi, ss_id, od_hour, od_quarter, quarter_demand,
                   assigned_demand, substep_counts, edge_vol_files, final_trip_info,
                   final_vol, hist>>

\* Lines 876-889: the rows of the OD pairs without a path.
NoPathRows(rows) ==
    [i \in DOMAIN rows |->
        [ agent_id |-> rows[i].agent_id, origin_nid |-> rows[i].origin_nid,
          destin_nid |-> rows[i].destin_nid,
          travel_time |-> NO_PATH_TIME, travel_time_used |-> NaN, stop_nid |-> NaN,
          stop_hour |-> NaN, stop_quarter |-> NaN, stop_ssid |-> NaN ]]

\* write_final_vol, lines 549-563.
WriteFinalVol(edges) ==
    { [ uniqueid |-> edges[k].uniqueid, start_nid |-> edges[k].start_nid,
        end_nid |-> edges[k].end_nid, vol_tot |-> edges[k].vol_tot ] :
      k \in {e \in DOMAIN edges : edges[e].vol_tot > 0} }

\* Lines 847-905: the final tables.  write_final_vol is called with the loop
\* variables hour and quarter, which are not bound when hour_list is empty.
Finalize ==
    /\ pc = "hour"
    /\ hi = Len(cfg.hour_list)
    /\ final_trip_info' = TripInfoRows(trip_info, trip_keys) \o NoPathRows(od_no_path)
    /\ IF hi = 0
       THEN /\ pc' = "raised"
            /\ UNCHANGED final_vol
       ELSE /\ pc' = "done"
            /\ final_vol' = WriteFinalVol(edges_df)
    /\ UNCHANGED <<cfg, edges_df, has_flow, od_all, od_no_path, trip_info, trip_keys,
                   od_residual_list, hi, qi, ss_id, od_hour, od_quarter, quarter_demand,
                   assigned_demand, substep_counts, edge_vol_files, trip_info_files, hist>>

Next ==
    \/ LoadNetwork
    \/ AssignmentSetup
    \/ HourStart
    \/ QuarterStart
    \/ SubstepSkip
    \/ SubstepRun
    \/ QuarterEnd
    \/ HourEnd
    \/ Finalize

Spec == Init /\ [][Next]_vars

\* ============================================================ properties
\* Helpers of the properties (none of them is used by the model above).
CountSeq(seq, P(_)) == Cardinality({i \in DOMAIN seq : P(seq[i])})

RowKey(r) == <<r.agent_id, r.origin_nid, r.destin_nid>>

\* The nodes that can be reached from the nodes of S over the edges of E.
RECURSIVE ReachSet(_, _)
ReachSet(E, S) ==
    LET T == S \cup {e[2] : e \in {x \in E : x[1] \in S}}
    IN  IF T = S THEN S ELSE ReachSet(E, T)

Reachable(E, a, b) == b \in ReachSet(E, {a})

\* The edges left once the links of the closure file are removed.
EdgesWithoutClosed == {k \in DOMAIN edges_df : edges_df[k].uniqueid \notin Range(cfg.closed_links)}

Loaded == pc \notin {"load"}
SetupDone == pc \notin {"load", "assignment"}

\* The OD rows (by index) whose destination cannot be reached once the
\* closed links are removed.  For a row from a node to itself the answer is
\* the router's: it is one of them if the router returned no path for it.
UnreachableRows ==
    {i \in DOMAIN cfg.od_table :
        ~Reachable(EdgesWithoutClosed, cfg.od_table[i].origin_nid, cfg.od_table[i].destin_nid)}
    \cup {od_no_path[j].row : j \in {n \in DOMAIN od_no_path :
                                        od_no_path[n].origin_nid = od_no_path[n].destin_nid}}

\* C1: when the run is done, every OD row appears exactly once in the final
\* trip table: for every trip key the table holds as many rows as the OD
\* table does.
C1_EveryRowOnce ==
    pc = "done" =>
        \A i \in DOMAIN cfg.od_table :
            CountSeq(final_trip_info, LAMBDA r : RowKey(r) = RowKey(cfg.od_table[i]))
                = CountSeq(cfg.od_table, LAMBDA r : RowKey(r) = RowKey(cfg.od_table[i]))

\* C2: an OD row whose destination is unreachable once the closed links are
\* removed (a) is in the final table with travel_time 360000 and null
\* used time and stop fields, once per such row, (b) is never part of the
\* demand of an hour, a quarter or a substep nor of the residual list, and
\* (c) leaves to all later steps exactly the demand frame and trip_info keys
\* of the OD table without it.
C2_NoPathRowsSetAside ==
    Loaded =>
        LET unreach == UnreachableRows
            others == SelectSeq(ODFrame(cfg.od_table), LAMBDA r : r.row \notin unreach)
            demandRows == {od_all[i].row : i \in DOMAIN od_all}
                          \cup {od_hour[i].row : i \in DOMAIN od_hour}
                          \cup {od_quarter[i].row : i \in DOMAIN od_quarter}
                          \cup {od_residual_list[i].row : i \in DOMAIN od_residual_list}
                          \cup {hist.last[i].row : i \in DOMAIN hist.last}
        IN  /\ demandRows \cap unreach = {}
            /\ SetupDone /\ pc # "raised" =>
                  /\ od_all = others
                  /\ DOMAIN trip_info = {RowKey(others[i]) : i \in DOMAIN others}
            /\ pc = "done" =>
                  \A i \in unreach :
                      /\ CountSeq(final_trip_info,
                            LAMBDA r : /\ RowKey(r) = RowKey(cfg.od_table[i])
                                       /\ r.travel_time = 360000 * Centi
                                       /\ r.travel_time_used = NaN /\ r.stop_nid = NaN
                                       /\ r.stop_hour = NaN /\ r.stop_quarter = NaN
                                       /\ r.stop_ssid = NaN)
                           = CountSeq(cfg.od_table, LAMBDA r : RowKey(r) = RowKey(cfg.od_table[i]))
                      /\ CountSeq(final_trip_info,
                            LAMBDA r : RowKey(r) = RowKey(cfg.od_table[i]))
                           = CountSeq(cfg.od_table, LAMBDA r : RowKey(r) = RowKey(cfg.od_table[i]))

\* C2 witness: a finished run whose OD table has a row cut off by the closed
\* link beside a row that was routed and walked.
C2_Witness ==
    /\ pc = "done"
    /\ cfg.closed_links # <<>>
    /\ \E i \in UnreachableRows :
          Reachable(DOMAIN edges_df, cfg.od_table[i].origin_nid, cfg.od_table[i].destin_nid)
    /\ \E k \in DOMAIN trip_info : trip_info[k].travel_time > 0

\* C3: after any capacity-restraint update every edge has capacity >= 1 and
\* 0 <= t_avg <= 36000.
C3_CapacityAndTimeBounds ==
    has_flow =>
        \A k \in DOMAIN edges_df :
            /\ edges_df[k].capacity >= 1
            /\ 0 <= edges_df[k].t_avg
            /\ edges_df[k].t_avg <= 36000 * Centi

\* C3 witness: after an update, an open edge that carried volume and whose
\* congested time was cut to the ceiling.
C3_Witness ==
    /\ has_flow
    /\ \E k \in DOMAIN edges_df :
          /\ edges_df[k].fft < 36000 * Centi
          /\ edges_df[k].vol_true > 0
          /\ edges_df[k].t_avg = 36000 * Centi

SumOver(S, f(_)) ==
    LET RECURSIVE Sum(_)
        Sum(T) == IF T = {} THEN 0
                  ELSE LET x == CHOOSE y \in T : TRUE IN f(x) + Sum(T \ {x})
    IN  Sum(S)

QuarterEnded == pc = "quarter" /\ qi >= 1

\* C4: at the end of every quarter the volumes of the quarter sum to
\* sample_interval times the number of edge traversals of its substeps.
C4_FlowConservation ==
    (QuarterEnded \/ pc = "substep") =>
        SumOver(DOMAIN edges_df, LAMBDA k : edges_df[k].vol_true)
            = cfg.sample_interval * hist.events

\* C4 witness: the end of a quarter in which a sampled agent (sample_interval
\* above 1) crossed two edges or more.
C4_Witness ==
    /\ QuarterEnded
    /\ cfg.sample_interval > 1
    /\ hist.events >= 2

\* C5: in every quarter and substep of a processed hour, an edge named in
\* the closure file has fft 36000 and capacity 1 if the hour is a closure
\* hour, and its normal fft and capacity otherwise.
C5_ClosureCorrectness ==
    pc \in {"quarter", "substep"} =>
        \A k \in DOMAIN edges_df :
            edges_df[k].uniqueid \in Range(cfg.closed_links) =>
                IF Hour \in cfg.closure_hours
                THEN edges_df[k].fft = 36000 * Centi /\ edges_df[k].capacity = 1
                ELSE /\ edges_df[k].fft = edges_df[k].normal_fft
                     /\ edges_df[k].capacity = edges_df[k].normal_capacity

\* C5 witness: a substep of a non-closure hour that follows a closure hour,
\* and one of a closure hour that follows a non-closure hour.
C5_Witness ==
    /\ pc = "substep" /\ hi = 2
    /\ cfg.closed_links # <<>>
    /\ cfg.hour_list[1] \in cfg.closure_hours
    /\ Hour \notin cfg.closure_hours
    /\ \E k \in DOMAIN edges_df :
          /\ edges_df[k].uniqueid \in Range(cfg.closed_links)
          /\ edges_df[k].normal_fft < 36000 * Centi
          /\ edges_df[k].normal_capacity > 1

\* The restraint formula written out for edge k from the columns of the edge
\* table and the demand counters: <<quotient, remainder, divisor>> of
\* fft * (1 + 0.3 * (flow / capacity) ^ beta) in model time units.
RestraintQuotient(k) ==
    LET F == edges_df[k].vol_true * quarter_demand * QuarterCounts
        C == assigned_demand * edges_df[k].capacity
        p == 3 * Pow(F, cfg.beta_f)
        q == 10 * Pow(C, cfg.beta_f)
        d == MulDiv(edges_df[k].fft, q + p, q, 36000 * Centi)
    IN  <<d[1], d[2], q>>

AfterRestraintUpdate == pc = "substep" /\ assigned_demand > 0

FlowAsStated(k) ==
    edges_df[k].flow[1] * assigned_demand
        = edges_df[k].vol_true * quarter_demand * QuarterCounts * edges_df[k].flow[2]

\* C7 as stated: after each substep's restraint update every edge has
\* flow = vol_true * (quarter_demand / assigned_demand) * quarter_count and
\* t_avg = min(36000, fft * (1 + alpha * (flow / capacity) ^ beta)) exactly.
C7_ExactTime ==
    AfterRestraintUpdate =>
        \A k \in DOMAIN edges_df :
            /\ FlowAsStated(k)
            /\ IF edges_df[k].vol_true = 0
               THEN edges_df[k].t_avg = Min(edges_df[k].fft, 36000 * Centi)
               ELSE LET d == RestraintQuotient(k)
                    IN  IF d[1] >= 36000 * Centi
                        THEN edges_df[k].t_avg = 36000 * Centi
                        ELSE d[2] = 0 /\ edges_df[k].t_avg = d[1]

\* C7 amended: the same, with t_avg rounded to two decimals (half to even)
\* after the ceiling is applied.
C7_RoundedTime ==
    AfterRestraintUpdate =>
        \A k \in DOMAIN edges_df :
            /\ FlowAsStated(k)
            /\ IF edges_df[k].vol_true = 0
               THEN edges_df[k].t_avg = Min(edges_df[k].fft, 36000 * Centi)
               ELSE LET d == RestraintQuotient(k)
                    IN  IF d[1] >= 36000 * Centi
                        THEN edges_df[k].t_avg = 36000 * Centi
                        ELSE \/ 2 * d[2] < d[3] /\ edges_df[k].t_avg = d[1]
                             \/ 2 * d[2] > d[3] /\ edges_df[k].t_avg = d[1] + 1
                             \/ /\ 2 * d[2] = d[3]
                                /\ edges_df[k].t_avg \in {d[1], d[1] + 1}
                                /\ edges_df[k].t_avg % 2 = 0

\* C7 witness: after an update with extrapolated demand (assigned below the
\* quarter's demand), an edge with volume whose time is no multiple of 0.01
\* before rounding.
C7_Witness ==
    /\ AfterRestraintUpdate
    /\ assigned_demand < quarter_demand
    /\ \E k \in DOMAIN edges_df :
          /\ edges_df[k].vol_true > 0
          /\ RestraintQuotient(k)[1] < 36000 * Centi
          /\ RestraintQuotient(k)[2] # 0

\* The edges open in the hour of OD row i: the closed links are removed in a
\* closure hour only.
OwnHourEdges(i) ==
    IF cfg.od_table[i].hour \in cfg.closure_hours THEN EdgesWithoutClosed ELSE DOMAIN edges_df

\* C8: a trip is recorded as no-path exactly when its destination is
\* unreachable under the closure state of the trip's own hour.
C8_NoPathUnderOwnHourClosures ==
    (SetupDone /\ pc # "raised") =>
        \A i \in DOMAIN cfg.od_table :
            cfg.od_table[i].hour \in Range(cfg.hour_list) =>
                ((i \in {od_no_path[j].row : j \in DOMAIN od_no_path})
                    <=> ~Reachable(OwnHourEdges(i), cfg.od_table[i].origin_nid,
                                   cfg.od_table[i].destin_nid))

\* A step of SubstepRun that ran substep_assignment to its end.
SubstepRan == pc = "substep" /\ pc' = "substep" /\ ss_id' = ss_id + 1 /\ assigned_demand' > 0

\* The edges the agent of log entry e crossed.
CrossedEdges(e) == {<<e.path[j], e.path[j + 1]>> : j \in 1..e.traversed}

\* C9: no agent traverses a closed edge: within an hour, an edge with fft =
\* 36000 is crossed by no walk and its vol_true and vol_tot do not increase;
\* the edge stays a row of the edge table.
C9_ClosedEdgeNotTraversed ==
    [][Loaded =>
        /\ DOMAIN edges_df' = DOMAIN edges_df
        /\ \A k \in DOMAIN edges_df :
              (hi' = hi /\ edges_df[k].fft = 36000 * Centi) =>
                  /\ edges_df'[k].vol_true <= edges_df[k].vol_true
                  /\ edges_df'[k].vol_tot <= edges_df[k].vol_tot
                  /\ SubstepRan =>
                        \A i \in DOMAIN hist'.last : k \notin CrossedEdges(hist'.last[i])]_vars

\* C9 witness: in a closure hour an agent has crossed an edge while the
\* closed edge, whose travel time still reads below 36000, kept no volume.
C9_Witness ==
    /\ pc = "substep"
    /\ Hour \in cfg.closure_hours
    /\ \E i \in DOMAIN hist.last : hist.last[i].traversed >= 1
    /\ \E k \in DOMAIN edges_df :
          /\ edges_df[k].fft = 36000 * Centi
          /\ edges_df[k].vol_true = 0 /\ edges_df[k].vol_tot = 0
          /\ edges_df[k].normal_fft < 36000 * Centi

\* The planned trip length of log entry e on the travel times the substep
\* started with.
PlannedLength(e) ==
    IF e.path = <<>> THEN UNREACHABLE_LENGTH
    ELSE SeqSum([j \in 1..(Len(e.path) - 1) |-> edges_df[<<e.path[j], e.path[j + 1]>>].t_avg])

\* C10: an agent whose shortest-path length exceeds agent_time_limit is not
\* walked in that substep, changes no volume and no vehicles-en-route value,
\* keeps its trip-outcome entry, is not added to the residual list, and is in
\* the demand of no later quarter.
C10_TimeLimitExclusion ==
    [][/\ SubstepRan =>
            LET over == {i \in DOMAIN hist'.last :
                            /\ cfg.agent_time_limit # None
                            /\ PlannedLength(hist'.last[i]) > cfg.agent_time_limit}
            IN  /\ \A i \in over :
                      /\ ~hist'.last[i].walked
                      /\ hist'.last[i].traversed = 0
                      /\ trip_info'[hist'.last[i].key] = trip_info[hist'.last[i].key]
                      /\ hist'.last[i].row \notin
                            {od_residual_list'[j].row : j \in DOMAIN od_residual_list'}
                      /\ hist'.last[i].row \in hist'.removed
                /\ over = DOMAIN hist'.last =>
                      \A k \in DOMAIN edges_df :
                          /\ edges_df'[k].vol_true = edges_df[k].vol_true
                          /\ edges_df'[k].veh_current = edges_df[k].veh_current
       /\ od_quarter' # od_quarter =>
            \A j \in DOMAIN od_quarter' : od_quarter'[j].row \notin hist.removed]_vars

\* C10 witness: the run is done, an agent was removed by the time limit with
\* its outcome entry still as built, and another trip was walked.
C10_Witness ==
    /\ pc = "done"
    /\ cfg.agent_time_limit # None
    /\ \E r \in hist.removed :
          trip_info[RowKey(cfg.od_table[r])].travel_time = 0
    /\ \E k \in DOMAIN trip_info : trip_info[k].travel_time > 0

\* C11: when the OD table has no quarter column the run does not fail, every
\* trip of an hour holds one quarter of 0..quarter_counts-1, and when the run
\* is done every routable trip of an hour of the run has been walked as
\* demand of its hour.
C11_RandomQuartersRouted ==
    ~cfg.has_quarter =>
        /\ pc # "raised"
        /\ \A i \in DOMAIN od_hour : od_hour[i].quarter \in 0..(QuarterCounts - 1)
        /\ pc = "done" =>
              \A i \in DOMAIN od_all :
                  od_all[i].hour \in Range(cfg.hour_list) =>
                      trip_info[RowKey(od_all[i])].travel_time > 0

\* A step that ends an hour; a step that ends a quarter.
HourEnds == pc = "quarter" /\ pc' = "hour"
QuarterEnds == pc = "substep" /\ pc' = "quarter"

\* The quarters and substeps of the hour are all done.
HourSettled == qi = Len(QuarterList) /\ ss_id = substep_counts

\* C12 as stated: a trip_info file is written at the end of each third
\* processed hour of the hour list (position 3, 6, ...) whatever its label,
\* and at no other moment; it is written once the quarters and substeps of
\* the hour are settled.
C12_EveryThirdProcessedHour ==
    [][/\ HourEnds => (trip_info_files' # trip_info_files <=> hi % 3 = 0)
       /\ trip_info_files' # trip_info_files =>
              /\ HourEnds /\ HourSettled
              /\ Len(trip_info_files') = Len(trip_info_files) + 1
              /\ trip_info_files'[Len(trip_info_files')].hour = Hour]_vars

\* C12 amended: a trip_info file is written at the end of each processed
\* hour whose label is a multiple of 3, and at no other moment; it is
\* written once the quarters and substeps of the hour are settled.
C12_HourLabelMultipleOfThree ==
    [][/\ HourEnds => (trip_info_files' # trip_info_files <=> Hour % 3 = 0)
       /\ trip_info_files' # trip_info_files =>
              /\ HourEnds /\ HourSettled
              /\ Len(trip_info_files') = Len(trip_info_files) + 1
              /\ trip_info_files'[Len(trip_info_files')].hour = Hour]_vars

\* C12 witness: the run over hours 6, 7, 8 is done with a trip walked; the
\* only trip_info file is the one of hour 6, the first hour processed.
C12_Witness ==
    /\ pc = "done"
    /\ cfg.hour_list = <<6, 7, 8>>
    /\ Len(trip_info_files) = 1
    /\ trip_info_files[1].hour = 6
    /\ \E k \in DOMAIN trip_info : trip_info[k].travel_time > 0

\* The hours processed up to and including the hour labelled h.
HoursUpTo(h) == {cfg.hour_list[i] : i \in {j \in DOMAIN cfg.hour_list : cfg.hour_list[j] <= h}}

\* C13 as stated: a trip_info file of an hour holds the trips walked in some
\* substep up to that hour and no trip that has not been walked yet.
C13_OnlyTouchedTrips ==
    \A f \in DOMAIN trip_info_files :
        LET rows == trip_info_files[f].rows
        IN  /\ \A i \in DOMAIN rows : rows[i].travel_time > 0
            /\ \A k \in DOMAIN trip_info :
                  (trip_info[k].travel_time > 0
                      /\ trip_info[k].stop_hour \in HoursUpTo(trip_info_files[f].hour))
                      => \E i \in DOMAIN rows : RowKey(rows[i]) = k

\* C13 amended: a trip_info file of an hour holds one row for every trip key
\* of the routable OD rows, in the order of first occurrence, walked or not:
\* a trip not walked yet has travel_time 0, used time 0, its origin as stop
\* node and stop_hour 0, a walked trip has its last stop in an hour
\* processed by then; a key that only no-path rows have is not in the file.
C13_AllRoutableTrips ==
    \A f \in DOMAIN trip_info_files :
        LET rows == trip_info_files[f].rows
        IN  /\ [i \in DOMAIN rows |-> RowKey(rows[i])] = KeyOrder(od_all)
            /\ \A i \in DOMAIN rows :
                  IF rows[i].travel_time = 0
                  THEN /\ rows[i].travel_time_used = 0
                       /\ rows[i].stop_nid = rows[i].origin_nid
                       /\ rows[i].stop_hour = 0
                  ELSE rows[i].stop_hour \in HoursUpTo(trip_info_files[f].hour)
            /\ \A j \in DOMAIN od_no_path :
                  (\A i \in DOMAIN od_all : RowKey(od_all[i]) # RowKey(od_no_path[j]))
                      => \A i \in DOMAIN rows : RowKey(rows[i]) # RowKey(od_no_path[j])

\* C13 witness: a trip_info file that holds a walked trip beside a trip that
\* has not been walked yet.
C13_Witness ==
    /\ pc = "done"
    /\ \E f \in DOMAIN trip_info_files :
          /\ \E i \in DOMAIN trip_info_files[f].rows :
                 trip_info_files[f].rows[i].travel_time > 0
          /\ \E i \in DOMAIN trip_info_files[f].rows :
                 trip_info_files[f].rows[i].travel_time = 0

\* C14 as stated: the end of every processed quarter writes one edge_vol
\* file, that of its hour and quarter, and nothing else writes one.
C14_SnapshotEveryQuarter ==
    [][/\ QuarterEnds =>
              /\ Len(edge_vol_files') = Len(edge_vol_files) + 1
              /\ edge_vol_files'[Len(edge_vol_files')].hour = Hour
              /\ edge_vol_files'[Len(edge_vol_files')].quarter = Quarter
       /\ edge_vol_files' # edge_vol_files => QuarterEnds]_vars

\* C14 amended: the end of a processed quarter writes one edge_vol file,
\* that of its hour and quarter, if a substep with demand has run before in
\* the run (the edge table then has a flow column), and none otherwise;
\* nothing else writes one.
C14_SnapshotOnceAssigned ==
    [][/\ QuarterEnds =>
              IF has_flow
              THEN /\ Len(edge_vol_files') = Len(edge_vol_files) + 1
                   /\ SubSeq(edge_vol_files', 1, Len(edge_vol_files)) = edge_vol_files
                   /\ edge_vol_files'[Len(edge_vol_files')].hour = Hour
                   /\ edge_vol_files'[Len(edge_vol_files')].quarter = Quarter
              ELSE edge_vol_files' = edge_vol_files
       /\ edge_vol_files' # edge_vol_files => QuarterEnds]_vars

\* C14 witness: a quarter has ended with its file written, after an earlier
\* quarter without demand that left no file.
C14_Witness ==
    /\ QuarterEnded
    /\ has_flow
    /\ Len(edge_vol_files) >= 1
    /\ edge_vol_files[Len(edge_vol_files)].hour = Hour
    /\ edge_vol_files[Len(edge_vol_files)].quarter = Quarter
    /\ Len(edge_vol_files) < (hi - 1) * Len(QuarterList) + qi

\* The closures are in force: from the load to the first hour, and in a
\* closure hour.
ClosureInForce == Loaded /\ (hi = 0 \/ Hour \in cfg.closure_hours)

\* C15: while the closures are in force a closed edge has capacity 1, fft
\* 36000 and t_avg 36000; every edge has capacity >= 1 in every state.
C15_ClosedEdgeSentinels ==
    Loaded =>
        \A k \in DOMAIN edges_df :
            /\ edges_df[k].capacity >= 1
            /\ (ClosureInForce /\ edges_df[k].uniqueid \in Range(cfg.closed_links)) =>
                  /\ edges_df[k].capacity = 1
                  /\ edges_df[k].fft = 36000 * Centi
                  /\ edges_df[k].t_avg = 36000 * Centi

\* The uniqueids of the edge file.
EdgeIds == {EDGE_ROWS[i].uniqueid : i \in DOMAIN EDGE_ROWS}

\* C17: a run whose closure file names an edge id that no edge has stops
\* at load time: it never gets past the setup of assignment() and starts
\* no hour.
C17_UnknownClosureRowAborts ==
    (\E id \in Range(cfg.closed_links) : id \notin EdgeIds) =>
        /\ hi = 0
        /\ pc \in {"load", "assignment", "raised"}

\* The rows of the edge file that join the pair of nodes k.
RowsOfPair(k) == {i \in DOMAIN EDGE_ROWS : EDGE_ROWS[i].start_nid = k[1] /\ EDGE_ROWS[i].end_nid = k[2]}

\* C18: after the load no two edges join the same (start_nid, end_nid), and
\* the edge kept for a pair is a row of the edge file for that pair whose
\* free-flow time is the largest of the pair's rows.
C18_UniquePairMaxFft ==
    Loaded =>
        /\ \A k \in DOMAIN edges_df : \A l \in DOMAIN edges_df :
              (edges_df[k].start_nid = edges_df[l].start_nid
                  /\ edges_df[k].end_nid = edges_df[l].end_nid) => k = l
        /\ \A i \in DOMAIN EDGE_ROWS :
              \E k \in DOMAIN edges_df :
                  /\ edges_df[k].start_nid = EDGE_ROWS[i].start_nid
                  /\ edges_df[k].end_nid = EDGE_ROWS[i].end_nid
        /\ \A k \in DOMAIN edges_df :
              \E i \in RowsOfPair(<<edges_df[k].start_nid, edges_df[k].end_nid>>) :
                  /\ EDGE_ROWS[i].uniqueid = edges_df[k].uniqueid
                  /\ EDGE_ROWS[i].fft = edges_df[k].normal_fft
                  /\ \A j \in RowsOfPair(<<edges_df[k].start_nid, edges_df[k].end_nid>>) :
                        EDGE_ROWS[j].fft <= EDGE_ROWS[i].fft

\* C18 witness: the load is over, the edge file held two rows of different
\* free-flow time for one pair of nodes, and the table holds the slower.
C18_Witness ==
    /\ pc = "assignment"
    /\ \E k \in DOMAIN edges_df :
          \E i \in RowsOfPair(k) : \E j \in RowsOfPair(k) :
              /\ EDGE_ROWS[i].fft < EDGE_ROWS[j].fft
              /\ edges_df[k].uniqueid = EDGE_ROWS[j].uniqueid

\* The capacity the edge file gives the edge of uniqueid u.
InputCapacity(u) == EDGE_ROWS[CHOOSE i \in DOMAIN EDGE_ROWS : EDGE_ROWS[i].uniqueid = u].capacity

\* C19: the load replaces every input capacity below 1 by 950 before it
\* records normal_capacity (so normal_capacity is the replaced value), and
\* no later step changes normal_capacity or gives an edge a capacity other
\* than its normal_capacity or the 1 of a closed edge.
C19_CapacityCleanedOnceAtLoad ==
    [][/\ pc = "load" =>
              \A k \in DOMAIN edges_df' :
                  /\ edges_df'[k].normal_capacity
                        = (IF InputCapacity(edges_df'[k].uniqueid) < 1 THEN 950
                           ELSE InputCapacity(edges_df'[k].uniqueid))
                  /\ edges_df'[k].capacity \in {edges_df'[k].normal_capacity, 1}
       /\ Loaded =>
              \A k \in DOMAIN edges_df :
                  /\ edges_df'[k].normal_capacity = edges_df[k].normal_capacity
                  /\ edges_df'[k].capacity \in {edges_df[k].normal_capacity, 1}]_vars

\* C19 witness: a run of two hours with walked trips is done and the edge
\* whose input capacity is 0 has capacity and normal_capacity 950.
C19_Witness ==
    /\ pc = "done"
    /\ has_flow
    /\ \E k \in DOMAIN edges_df :
          /\ InputCapacity(edges_df[k].uniqueid) < 1
          /\ edges_df[k].normal_capacity = 950
          /\ edges_df[k].capacity = 950

\* The travel time, before the substep, of the j-th edge of a path, and the
\* time of its first n edges.
EdgeTimeAt(path, j) == edges_df[<<path[j], path[j + 1]>>].t_avg
TimeOfFirst(path, n) == SeqSum([j \in 1..n |-> EdgeTimeAt(path, j)])

\* C20: in a substep a walked agent starts with the budget 3600 /
\* quarter_counts plus its carried link time; it crosses the edges of its
\* path in order, each one exactly when its travel time is strictly below
\* the budget left and below 36000, every crossing taking the edge's time
\* off the budget and adding sample_interval to the edge's vol_true; at the
\* first edge that fails the test (a travel time equal to the budget left
\* included) it stops, and no later edge gains volume.
C20_WalkWithinBudget ==
    [][SubstepRan =>
          /\ Len(hist'.last) = Len(OdSs)
          /\ \A i \in DOMAIN hist'.last :
                LET e == hist'.last[i]
                    budget == (3600 * Centi) \div QuarterCounts + OdSs[i].current_link_time
                    n == e.traversed
                IN  e.walked =>
                      /\ e.row = OdSs[i].row
                      /\ e.budget = budget
                      /\ n <= Max(0, Len(e.path) - 1)
                      /\ \A j \in 1..n :
                            /\ EdgeTimeAt(e.path, j) < budget - TimeOfFirst(e.path, j - 1)
                            /\ EdgeTimeAt(e.path, j) < 36000 * Centi
                      /\ n < Len(e.path) - 1 =>
                            \/ EdgeTimeAt(e.path, n + 1) >= budget - TimeOfFirst(e.path, n)
                            \/ EdgeTimeAt(e.path, n + 1) >= 36000 * Centi
                      /\ e.used_time = TimeOfFirst(e.path, n)
          /\ \A k \in DOMAIN edges_df :
                edges_df'[k].vol_true
                    = edges_df[k].vol_true
                      + cfg.sample_interval
                        * Cardinality({i \in DOMAIN hist'.last :
                                          /\ hist'.last[i].walked
                                          /\ k \in CrossedEdges(hist'.last[i])})]_vars

\* C20 witness: in the first substep of a run an agent has crossed an edge
\* and stopped before the next, whose travel time equals the budget left.
C20_Witness ==
    /\ pc = "substep" /\ hi = 1 /\ qi = 1 /\ ss_id = 1
    /\ \E i \in DOMAIN hist.last :
          LET e == hist.last[i]
          IN  /\ e.walked
              /\ e.traversed >= 1
              /\ e.traversed < Len(e.path) - 1
              /\ LET next == <<e.path[e.traversed + 1], e.path[e.traversed + 2]>>
                 IN  /\ edges_df[next].fft = edges_df[next].normal_fft
                     /\ edges_df[next].normal_fft = e.budget - e.used_time
                     /\ edges_df[next].vol_true = 0

\* A step that starts a quarter.
QuarterStarts == pc = "quarter" /\ pc' = "substep"

\* Log entry e is of an agent that was walked and stopped before the end of
\* its path; of one that was walked to the end of its path.
StoppedShort(e) == e.walked /\ e.traversed < Len(e.path) - 1
WalkedToEnd(e) == e.walked /\ e.path # <<>> /\ e.traversed = Len(e.path) - 1

\* The residual entry expected for a log entry that stopped short.
ResidualOf(e) ==
    [ row |-> e.row, agent_id |-> e.key[1], origin_nid |-> e.key[2], destin_nid |-> e.key[3],
      current_nid |-> e.path[e.traversed + 1],
      current_link |-> <<e.path[e.traversed + 1], e.path[e.traversed + 2]>>,
      current_link_time |-> e.budget - e.used_time ]

\* An od_quarter row without its substep index.
WithoutSsId(r) ==
    [ row |-> r.row, agent_id |-> r.agent_id, origin_nid |-> r.origin_nid,
      destin_nid |-> r.destin_nid, current_nid |-> r.current_nid,
      current_link |-> r.current_link, current_link_time |-> r.current_link_time ]

ResidualRows(list) == {list[j].row : j \in DOMAIN list}

\* What C21 says of carrying and merging: a substep appends to the residual
\* list, for each walked agent that stopped short and for no other, the
\* entry with the start node of the edge not crossed, that edge and the
\* budget left; the running quarter's demand does not change; the start of
\* the next quarter (of the same or the next hour) merges every residual
\* entry into its demand and empties the list; nothing else touches either.
CarriedAndMerged ==
    /\ SubstepRan =>
          LET short == SelectSeq(hist'.last, StoppedShort)
          IN  /\ od_residual_list'
                    = od_residual_list \o [i \in DOMAIN short |-> ResidualOf(short[i])]
              /\ od_quarter' = od_quarter
    /\ QuarterStarts =>
          /\ \A j \in DOMAIN od_residual_list :
                \E i \in DOMAIN od_quarter' : WithoutSsId(od_quarter'[i]) = od_residual_list[j]
          /\ od_residual_list' = <<>>
    /\ od_residual_list' # od_residual_list => (SubstepRan \/ QuarterStarts)
    /\ od_quarter' # od_quarter => QuarterStarts

\* C21 as stated: carried and merged as above, and a residual agent stays in
\* the residual set until it reaches its destination: after every substep
\* that routes it, it is residual again or has walked to the end of its path.
C21_ResidualUntilArrival ==
    [][/\ CarriedAndMerged
       /\ SubstepRan =>
              \A i \in DOMAIN hist'.last :
                  OdSs[i].current_link # NoLink =>
                      \/ hist'.last[i].row \in ResidualRows(od_residual_list')
                      \/ WalkedToEnd(hist'.last[i])]_vars

\* C21 amended: carried and merged as above; a residual agent is carried
\* again after a substep exactly when it was walked and stopped short: it
\* leaves the residual set when it walks to its destination, when the time
\* limit removes it, or when the router returns no path for it.
C21_ResidualWhileStoppedShort ==
    [][/\ CarriedAndMerged
       /\ SubstepRan =>
              \A i \in DOMAIN hist'.last :
                  OdSs[i].current_link # NoLink =>
                      (hist'.last[i].row \in ResidualRows(od_residual_list')
                          <=> StoppedShort(hist'.last[i]))]_vars

\* C21 witness: in the second hour a quarter has started whose demand holds
\* an agent carried over the hour boundary with its link and time.
C21_Witness ==
    /\ pc = "substep" /\ hi = 2 /\ qi = 1
    /\ \E i \in DOMAIN od_quarter :
          /\ od_quarter[i].current_link # NoLink
          /\ od_quarter[i].current_link[1] = od_quarter[i].current_nid
          /\ od_quarter[i].current_link_time > 0
          /\ od_quarter[i].current_nid # od_quarter[i].origin_nid

\* C22: an agent walked to the end of its path in a substep has its
\* destination as the stop node of its outcome after that substep, is not
\* appended to the residual list, and is in the demand of no later quarter
\* and among the agents of no later substep.  Violated where a second trip
\* of the same key is walked later in the substep and stops short: the
\* outcome they share takes that trip's stop node.
C22_ArrivedIsFinal ==
    [][/\ SubstepRan =>
              /\ \A i \in DOMAIN hist'.last :
                    WalkedToEnd(hist'.last[i]) =>
                        /\ hist'.last[i].stop = hist'.last[i].key[3]
                        /\ trip_info'[hist'.last[i].key].stop_nid = hist'.last[i].key[3]
                        /\ hist'.last[i].row \notin ResidualRows(od_residual_list')
              /\ \A i \in DOMAIN hist'.last : hist'.last[i].row \notin hist.arrived
       /\ QuarterStarts =>
              \A i \in DOMAIN od_quarter' : od_quarter'[i].row \notin hist.arrived
       /\ \A r \in hist.arrived : r \notin ResidualRows(od_residual_list')]_vars

\* The log entries (positions) of the agents of key k walked in the substep.
WalkedOfKey(log, k) == {i \in DOMAIN log : log[i].walked /\ log[i].key = k}

\* The node where the agent of the i-th log entry itself stopped: the node
\* it had reached on its path, or the node it was at when it has no path.
OwnStop(log, i) ==
    IF log[i].path = <<>> THEN OdSs[i].current_nid ELSE log[i].path[log[i].traversed + 1]

\* C23: after a substep the outcome entry of a key none of whose agents was
\* walked is unchanged; for a key with walked agents elapsed time has grown
\* by 3600 / quarter_counts per walk, used time by the travel times of the
\* edges crossed, the stop node is the node where the agent (the last one
\* walked, if several share the key) itself stopped, and stop hour, quarter
\* and substep are the current ones.
C23_OutcomeUpdate ==
    [][SubstepRan =>
          \A k \in DOMAIN trip_info :
              LET W == WalkedOfKey(hist'.last, k)
                  last == CHOOSE i \in W : \A j \in W : j <= i
              IN  IF W = {} THEN trip_info'[k] = trip_info[k]
                  ELSE /\ trip_info'[k].travel_time
                            = trip_info[k].travel_time
                              + Cardinality(W) * ((3600 * Centi) \div QuarterCounts)
                       /\ trip_info'[k].travel_time_used
                            = trip_info[k].travel_time_used
                              + SumOver(W, LAMBDA i : TimeOfFirst(hist'.last[i].path,
                                                                  hist'.last[i].traversed))
                       /\ trip_info'[k].stop_nid = OwnStop(hist'.last, last)
                       /\ trip_info'[k].stop_hour = Hour
                       /\ trip_info'[k].stop_quarter = Quarter
                       /\ trip_info'[k].stop_ssid = ss_id]_vars

\* C24: an agent the router finds no path for when it is routed in a
\* substep does not make the run fail, is not carried as residual (so it is
\* not routed again), and is in the final table with travel_time 360000.
C24_NoPathAgentDropped ==
    /\ cfg.has_quarter => pc # "raised"
    /\ \A r \in hist.lost : r \notin ResidualRows(od_residual_list)
    /\ pc = "done" =>
          \A r \in hist.lost :
              \E i \in DOMAIN final_trip_info :
                  /\ RowKey(final_trip_info[i]) = RowKey(cfg.od_table[r])
                  /\ final_trip_info[i].travel_time = 360000 * Centi

\* The restraint formula for edge k on the quarter's own volume, flow =
\* vol_true * quarter_counts: <<quotient, remainder, divisor>>.
QuarterQuotient(k) ==
    LET p == 3 * Pow(edges_df[k].vol_true * QuarterCounts, cfg.beta_f)
        q == 10 * Pow(edges_df[k].capacity, cfg.beta_f)
        d == MulDiv(edges_df[k].fft, q + p, q, 36000 * Centi)
    IN  <<d[1], d[2], q>>

\* t_avg of edge k is min(36000, fft * (1 + 0.3 * (vol_true * quarter_counts
\* / capacity) ^ beta)), to the two decimals the table keeps.
TimeOfQuarterVolume(k) ==
    IF edges_df[k].vol_true = 0
    THEN edges_df[k].t_avg = Min(edges_df[k].fft, 36000 * Centi)
    ELSE LET d == QuarterQuotient(k)
         IN  IF d[1] >= 36000 * Centi
             THEN edges_df[k].t_avg = 36000 * Centi
             ELSE edges_df[k].t_avg \in {d[1], d[1] + 1}

\* C25: at the end of every processed quarter, one without demand included,
\* the t_avg of every edge is the volume-delay function of the quarter's own
\* final volume with the fft and capacity of the hour.
C25_TimeRefreshedEveryQuarter ==
    QuarterEnded => \A k \in DOMAIN edges_df : TimeOfQuarterVolume(k)

\* vol_tot of every edge is the sum of the vol_true of the edge_vol files
\* (a quarter that left no file had no substep before it and no volume).
VolTotIsSumOfFiles ==
    \A k \in DOMAIN edges_df :
        edges_df[k].vol_tot
            = SeqSum([f \in DOMAIN edge_vol_files |-> edge_vol_files[f].rows[k].vol_true])

CostNow(p) == SeqSum([j \in 1..(Len(p) - 1) |-> edges_df[<<p[j], p[j + 1]>>].t_avg])
CostFreeFlow(p) == SeqSum([j \in 1..(Len(p) - 1) |-> edges_df[<<p[j], p[j + 1]>>].fft])

\* The simple paths from a to b over the edges open before the substep.
OpenPaths(a, b) == SimplePaths({k \in DOMAIN edges_df : edges_df[k].fft < 36000 * Centi}, a, b)

AgentOrders(n) == {f \in [1..n -> 1..n] : \A i, j \in 1..n : f[i] = f[j] => i = j}

\* The result of the coming substep with its agents taken in the order f.
WalksInOrder(f) ==
    SubstepWalks(edges_df, [i \in DOMAIN OdSs |-> OdSs[f[i]]], trip_info,
                 cfg.agent_time_limit, cfg.sample_interval, QuarterCounts, Hour, Quarter,
                 ss_id)

\* C28: the result of a substep is the same for every order of its agents:
\* whether it ends at all, vol_true and veh_current of every edge, and the
\* residual agents with their anchors and times (t_avg follows from
\* vol_true).
C28_OrderIndependent ==
    (pc = "substep" /\ ss_id < substep_counts /\ Len(OdSs) >= 2) =>
        \A f \in AgentOrders(Len(OdSs)) : \A g \in AgentOrders(Len(OdSs)) :
            LET rf == WalksInOrder(f)
                rg == WalksInOrder(g)
            IN  /\ rf.raised = rg.raised
                /\ ~rf.raised =>
                      /\ rf.vol = rg.vol
                      /\ rf.veh = rg.veh
                      /\ Range(rf.residuals) = Range(rg.residuals)

\* C29: at the start of a quarter quarter_demand is the number of new
\* agents of the quarter and residual agents that are not at their
\* destination, substep_counts is max(1, quarter_demand // substep_size +
\* 1) and every agent holds one substep index of 0..substep_counts-1;
\* every substep adds the number of its agents to assigned_demand, which is
\* quarter_demand when the quarter ends.
C29_SubstepPartition ==
    [][/\ QuarterStarts =>
              /\ quarter_demand'
                    = Cardinality({i \in DOMAIN od_hour :
                                      /\ od_hour[i].quarter = cfg.quarter_list[qi + 1]
                                      /\ od_hour[i].current_nid # od_hour[i].destin_nid})
                      + Cardinality({j \in DOMAIN od_residual_list :
                                      od_residual_list[j].current_nid
                                          # od_residual_list[j].destin_nid})
              /\ Len(od_quarter') = quarter_demand'
              /\ substep_counts'
                    = (IF quarter_demand' \div cfg.substep_size + 1 >= 1
                       THEN quarter_demand' \div cfg.substep_size + 1 ELSE 1)
              /\ \A i \in DOMAIN od_quarter' :
                    od_quarter'[i].ss_id \in 0..(substep_counts' - 1)
              /\ assigned_demand' = 0
       /\ (pc = "substep" /\ pc' = "substep") =>
              assigned_demand'
                  = assigned_demand
                    + Cardinality({i \in DOMAIN od_quarter : od_quarter[i].ss_id = ss_id})
       /\ QuarterEnds => (ss_id = substep_counts /\ assigned_demand = quarter_demand)]_vars

\* C29 witness: the last substep of a quarter of two substeps is over, each
\* of the two having had an agent.
C29_Witness ==
    /\ pc = "substep"
    /\ substep_counts = 2 /\ ss_id = 2
    /\ quarter_demand = 2 /\ assigned_demand = 2
    /\ \E i \in DOMAIN od_quarter : od_quarter[i].ss_id = 0
    /\ \E i \in DOMAIN od_quarter : od_quarter[i].ss_id = 1

\* The routable OD rows (by index label) from a node to itself.
SameNodeRows == {od_all[i].row : i \in {j \in DOMAIN od_all : od_all[j].origin_nid = od_all[j].destin_nid}}

\* C30: a trip that is at its destination when the demand of a quarter is
\* merged is not in that demand: it is not counted in quarter_demand, holds
\* no substep, is walked in no substep (so adds no volume) and is not
\* carried; its elapsed time stays 0.
C30_ArrivedExcluded ==
    /\ \A i \in DOMAIN od_quarter : od_quarter[i].current_nid # od_quarter[i].destin_nid
    /\ pc = "substep" => quarter_demand = Len(od_quarter)
    /\ \A r \in SameNodeRows :
          /\ \A i \in DOMAIN od_quarter : od_quarter[i].row # r
          /\ \A i \in DOMAIN hist.last : hist.last[i].row # r
          /\ r \notin ResidualRows(od_residual_list)
          /\ (SetupDone /\ pc # "raised"
                 /\ \A i \in DOMAIN od_all :
                       RowKey(od_all[i]) = RowKey(cfg.od_table[r]) => od_all[i].row = r)
                => trip_info[RowKey(cfg.od_table[r])].travel_time = 0

\* C30 witness: the run is done with a routable trip from a node to itself
\* of an hour of the run, whose elapsed time is 0, beside a walked trip.
C30_Witness ==
    /\ pc = "done"
    /\ \E r \in SameNodeRows :
          /\ cfg.od_table[r].hour \in Range(cfg.hour_list)
          /\ \E i \in DOMAIN final_trip_info :
                /\ RowKey(final_trip_info[i]) = RowKey(cfg.od_table[r])
                /\ final_trip_info[i].travel_time = 0
    /\ \E k \in DOMAIN trip_info : trip_info[k].travel_time > 0

\* A step that starts an hour.
HourStarts == pc = "hour" /\ pc' = "quarter"

\* The loop has processed every hour of hour_list (none, if the list is
\* empty) and has not written the final tables yet.
LoopDone == pc = "hour" /\ hi = Len(cfg.hour_list)

\* C31: hours are taken in list order and the quarters of an hour in list
\* order, each once, an hour only after the last quarter of the hour before
\* it; the step that starts an hour, and no other step of the loop, sets
\* capacity and fft (closed values on the closed links in a closure hour,
\* normal values on every edge otherwise); once every hour is processed,
\* for the empty hour list too, the run writes the trip-outcome table and
\* the cumulative volume table and is done, every outcome as its last
\* update left it and no residual agent processed.
C31_LoopOrderAndFinalTables ==
    [][/\ hi' # hi =>
              /\ HourStarts
              /\ hi' = hi + 1
              /\ hi = 0 \/ qi = Len(QuarterList)
              /\ qi' = 0
              /\ \A k \in DOMAIN edges_df :
                    IF cfg.hour_list[hi'] \in cfg.closure_hours
                    THEN IF edges_df[k].uniqueid \in Range(cfg.closed_links)
                         THEN edges_df'[k].capacity = 1 /\ edges_df'[k].fft = CLOSED_TIME
                         ELSE /\ edges_df'[k].capacity = edges_df[k].capacity
                              /\ edges_df'[k].fft = edges_df[k].fft
                    ELSE /\ edges_df'[k].capacity = edges_df[k].normal_capacity
                         /\ edges_df'[k].fft = edges_df[k].normal_fft
       /\ (hi' = hi /\ qi' # qi) => (QuarterStarts /\ qi' = qi + 1)
       /\ (hi' = hi /\ hi > 0) =>
              \A k \in DOMAIN edges_df :
                  /\ edges_df'[k].capacity = edges_df[k].capacity
                  /\ edges_df'[k].fft = edges_df[k].fft
       /\ QuarterStarts => ss_id' = 0
       /\ LoopDone =>
              /\ pc' = "done"
              /\ trip_info' = trip_info
              /\ od_residual_list' = od_residual_list
              /\ \A i \in DOMAIN trip_keys :
                    /\ final_trip_info'[i].travel_time = trip_info[trip_keys[i]].travel_time
                    /\ final_trip_info'[i].travel_time_used
                          = trip_info[trip_keys[i]].travel_time_used
                    /\ final_trip_info'[i].stop_nid = trip_info[trip_keys[i]].stop_nid
              /\ Len(final_trip_info') = Len(trip_keys) + Len(od_no_path)
              /\ final_vol' = { [ uniqueid |-> edges_df[k].uniqueid,
                                  start_nid |-> edges_df[k].start_nid,
                                  end_nid |-> edges_df[k].end_nid,
                                  vol_tot |-> edges_df[k].vol_tot ] :
                                k \in {e \in DOMAIN edges_df : edges_df[e].vol_tot > 0} }
       /\ pc' = "done" => LoopDone]_vars

\* C32: in every outcome entry the used time is at most the elapsed time,
\* also with the time an agent still carries counted in: the time carried
\* by a residual agent, or by an agent of the quarter's demand that is
\* still to be walked, never exceeds the elapsed time of its trip that is
\* not used yet.
C32_UsedWithinElapsed ==
    /\ \A k \in DOMAIN trip_info :
          trip_info[k].travel_time_used <= trip_info[k].travel_time
    /\ \A j \in DOMAIN od_residual_list :
          LET o == trip_info[TripKey(od_residual_list[j])]
          IN  o.travel_time_used + od_residual_list[j].current_link_time <= o.travel_time
    /\ \A j \in {n \in DOMAIN od_quarter : pc = "substep" /\ od_quarter[n].ss_id >= ss_id} :
          LET o == trip_info[TripKey(od_quarter[j])]
          IN  o.travel_time_used + od_quarter[j].current_link_time <= o.travel_time

\* C32 witness: in the substep just run an agent that carried time over used
\* more than one quarter length.
C32_Witness ==
    /\ pc = "substep"
    /\ \E i \in DOMAIN hist.last :
          /\ hist.last[i].walked
          /\ hist.last[i].budget > HOUR_TIME \div QuarterCounts
          /\ hist.last[i].used_time > HOUR_TIME \div QuarterCounts
          /\ trip_info[hist.last[i].key].travel_time_used
                <= trip_info[hist.last[i].key].travel_time

\* The number of substeps in which OD row r was walked so far.
WalkCount(r) == IF r \in DOMAIN hist.walks THEN hist.walks[r] ELSE 0

\* The routable OD rows whose key no other routable row has.
UniqueKeyRows ==
    {j \in DOMAIN od_all :
        /\ TripKey(od_all[j]) \in DOMAIN trip_info
        /\ \A n \in DOMAIN od_all : TripKey(od_all[n]) = TripKey(od_all[j]) => n = j}

\* The elapsed time of every trip with a unique key is the quarter length
\* times the number of times it was walked.
ElapsedIsWalks ==
    \A j \in UniqueKeyRows :
        trip_info[TripKey(od_all[j])].travel_time
            = (HOUR_TIME \div QuarterCounts) * WalkCount(od_all[j].row)

\* C33: a substep walks no agent that an earlier substep of the same
\* quarter walked, and no agent twice; a residual agent a substep produces
\* is in the demand of no later substep of the quarter; after every step
\* the elapsed time of a trip with a unique key is 3600 / quarter_count
\* times the number of quarters in which it was walked.
C33_OncePerQuarter ==
    [][/\ SubstepRan =>
              /\ \A i \in DOMAIN hist'.last :
                    hist'.last[i].walked => hist'.last[i].row \notin hist.in_quarter
              /\ \A i, j \in DOMAIN hist'.last :
                    hist'.last[i].row = hist'.last[j].row => i = j
              /\ \A r \in ResidualRows(od_residual_list') :
                    \A n \in DOMAIN od_quarter' :
                        od_quarter'[n].row = r => od_quarter'[n].ss_id < ss_id'
              /\ \A r \in WalkedRows(hist'.last) : WalkCount(r)' = WalkCount(r) + 1
       /\ ElapsedIsWalks']_vars

\* C33 witness: the run is done; a trip with a unique key was walked in two
\* quarters, reached its destination, and used less time than elapsed.
C33_Witness ==
    /\ pc = "done"
    /\ \E j \in UniqueKeyRows :
          LET o == trip_info[TripKey(od_all[j])]
          IN  /\ WalkCount(od_all[j].row) = 2
              /\ o.travel_time = 2 * (HOUR_TIME \div QuarterCounts)
              /\ o.stop_nid = od_all[j].destin_nid
              /\ o.travel_time_used < o.travel_time

\* The OD rows of the agents carried on edge k: the residual agents of the
\* list and the residual agents of the quarter's demand still to be walked.
CarriedOn(k) ==
    {od_residual_list[j].row :
        j \in {n \in DOMAIN od_residual_list : od_residual_list[n].current_link = k}}
    \cup
    {od_quarter[j].row :
        j \in {n \in DOMAIN od_quarter :
                  /\ pc = "substep"
                  /\ od_quarter[n].ss_id >= ss_id
                  /\ od_quarter[n].current_link = k}}

VehiclesAreCarried ==
    \A k \in DOMAIN edges_df :
        /\ edges_df[k].veh_current >= 0
        /\ edges_df[k].veh_current = cfg.sample_interval * Cardinality(CarriedOn(k))

\* C34: after every substep veh_current of every edge is non-negative and
\* is sample_interval times the number of agents carried with that edge as
\* their current link.  Violated where a carried agent leaves its link
\* without crossing it: veh_current of the link is not taken back.
C34_VehiclesEnRoute ==
    [][SubstepRan => VehiclesAreCarried']_vars

\* The nodes of the journey of the agent of the i-th row of od_ss after the
\* walk logged as e: its origin, the node it had reached before the
\* substep, and the nodes of its path up to the last edge it traversed.
JourneyNodes(a, e) ==
    {a.origin_nid, a.current_nid}
    \cup {e.path[j] : j \in {n \in DOMAIN e.path : n <= e.traversed + 1}}

\* C35: the stop node a substep records for a walked agent is a node of that
\* agent's own journey.  Violated where the path of the agent is empty: the
\* stop node recorded is the one of the agent processed before it.
C35_StopOnOwnJourney ==
    [][SubstepRan =>
          \A i \in DOMAIN hist'.last :
              hist'.last[i].walked =>
                  /\ hist'.last[i].stop \in JourneyNodes(OdSs[i], hist'.last[i])
                  /\ (\A j \in DOMAIN hist'.last :
                          hist'.last[j].key = hist'.last[i].key => j <= i)
                      => trip_info'[hist'.last[i].key].stop_nid
                            \in JourneyNodes(OdSs[i], hist'.last[i])]_vars

\* The first substep of an hour without closure that follows a closure hour
\* is about to run.
AfterReopening ==
    /\ pc = "substep" /\ hi > 1 /\ qi = 1 /\ ss_id = 0
    /\ Hour \notin cfg.closure_hours
    /\ cfg.hour_list[hi - 1] \in cfg.closure_hours

\* C36: when the first substep of an hour without closure that follows a
\* closure hour runs, every link of the closure table has its normal fft
\* and capacity and a travel time below 36000, and the substep stops no
\* agent before such a link with more budget left than the link's free-flow
\* time.  Violated where a restraint update ran in the closure hour: t_avg
\* of the link is still 36000.
C36_RestoredEdgeTraversable ==
    [][(SubstepRan /\ AfterReopening) =>
          \A k \in DOMAIN edges_df :
              edges_df[k].uniqueid \in Range(cfg.closed_links) =>
                  /\ edges_df[k].fft = edges_df[k].normal_fft
                  /\ edges_df[k].capacity = edges_df[k].normal_capacity
                  /\ edges_df[k].t_avg < CLOSED_TIME
                  /\ \A i \in DOMAIN hist'.last :
                        LET e == hist'.last[i]
                        IN  (StoppedShort(e)
                               /\ <<e.path[e.traversed + 1], e.path[e.traversed + 2]>> = k)
                            => e.budget - e.used_time <= edges_df[k].normal_fft]_vars

\* A step that ends a substep, skipped or run.
SubstepEnds == pc = "substep" /\ ss_id' = ss_id + 1

\* C37: a substep that ends with no demand assigned so far in the quarter
\* leaves the edge table, the residual list, the trip outcomes and the
\* files unchanged; a substep that ends otherwise has divided by an
\* assigned_demand above 0; no step changes flow or t_avg of an edge while
\* assigned_demand is 0.
C37_NoUpdateWithoutDemand ==
    [][/\ SubstepEnds =>
              IF assigned_demand' = 0
              THEN /\ edges_df' = edges_df
                   /\ has_flow' = has_flow
                   /\ od_residual_list' = od_residual_list
                   /\ trip_info' = trip_info
                   /\ edge_vol_files' = edge_vol_files
              ELSE \A k \in DOMAIN edges_df :
                      /\ edges_df'[k].flow[2] = assigned_demand'
                      /\ edges_df'[k].flow[2] > 0
       /\ (pc # "load" /\ \E k \in DOMAIN edges_df :
                              \/ edges_df'[k].flow # edges_df[k].flow
                              \/ edges_df'[k].t_avg # edges_df[k].t_avg)
              => (SubstepEnds /\ assigned_demand' > 0)]_vars

\* C37 witness: the first substep of a quarter with demand has been
\* skipped: all of the demand is in later substeps.
C37_Witness ==
    /\ pc = "substep" /\ ss_id = 1 /\ ss_id < substep_counts
    /\ assigned_demand = 0
    /\ quarter_demand > 0
    /\ hist.last = <<>>
    /\ \E k \in DOMAIN edges_df : edges_df[k].t_avg # edges_df[k].fft

\* Every edge has capacity 1 or its normal capacity and fft 36000 or its
\* normal fft; an edge that is no row of the closure table has its normal
\* capacity and fft.
ClosedOrNormal ==
    \A k \in DOMAIN edges_df :
        /\ edges_df[k].capacity \in {1, edges_df[k].normal_capacity}
        /\ edges_df[k].fft \in {CLOSED_TIME, edges_df[k].normal_fft}
        /\ edges_df[k].uniqueid \notin Range(cfg.closed_links) =>
              /\ edges_df[k].capacity = edges_df[k].normal_capacity
              /\ edges_df[k].fft = edges_df[k].normal_fft

\* C38: after every step every edge is closed-or-normal as above, and no
\* step after load changes the set of edges, normal_capacity or normal_fft.
C38_CapacityAndFftValues ==
    [][/\ ClosedOrNormal'
       /\ pc # "load" =>
              /\ DOMAIN edges_df' = DOMAIN edges_df
              /\ \A k \in DOMAIN edges_df :
                    /\ edges_df'[k].normal_capacity = edges_df[k].normal_capacity
                    /\ edges_df'[k].normal_fft = edges_df[k].normal_fft]_vars

\* C38 witness: in the second hour, a closure hour after an hour without
\* closure, a restraint update has run; the closed link has capacity 1 and
\* fft 36000, both different from its normal values, and an edge whose
\* input capacity was below 1 has its cleaned capacity.
C38_Witness ==
    /\ pc = "substep" /\ hi = 2 /\ ss_id >= 1 /\ assigned_demand > 0
    /\ Hour \in cfg.closure_hours
    /\ cfg.hour_list[1] \notin cfg.closure_hours
    /\ \E k \in DOMAIN edges_df :
          /\ edges_df[k].uniqueid \in Range(cfg.closed_links)
          /\ edges_df[k].capacity = 1 /\ edges_df[k].normal_capacity # 1
          /\ edges_df[k].fft = CLOSED_TIME /\ edges_df[k].normal_fft # CLOSED_TIME
    /\ \E k \in DOMAIN edges_df :
          /\ edges_df[k].uniqueid \notin Range(cfg.closed_links)
          /\ edges_df[k].capacity = DEFAULT_CAPACITY

====
